---- MODULE Spec2Model ----
(***************************************************************************)
(* Verification model of the bit-rounding toolkit:                         *)
(*   - bitround            (src/src/netcdf_bit_rounding.c)                 *)
(*   - get_keepbits        (src/src/bitrounding_bitinfo.c)                 *)
(*   - signed_exponent     (src/src/bitrounding_bitinfo.c)                 *)
(*   - the bit-round main  (src/src/netcdf_bit_rounding.c)                 *)
(*   - the concatenator    (src/src/hdf_concat.c)                          *)
(*   - bitinformation      (src/src/bitrounding_bitinfo.c)                 *)
(*   - the bit-pattern summary (src/src/bit_pattern.c)                     *)
(*   - the slab loops      (src/src/hdf_bit_analysis.c,                    *)
(*                          src/src/netcdf_bit_analysis.c)                 *)
(*   - fix_dimension_list_references (src/src/hdf_concat.c)                *)
(* Each part has its own state variable and its own specification.         *)
(***************************************************************************)
EXTENDS Integers, Sequences, FiniteSets, TLC

VARIABLES rnd, kb, br, cc, sx, bc, bp, od, dl

vars == <<rnd, kb, br, cc, sx, bc, bp, od, dl>>

(***************************************************************************)
(* 32-bit unsigned words.  A uint32_t is kept as two 16-bit halves so that *)
(* every intermediate value stays inside the checker's integer range; all  *)
(* operations are the C operations modulo 2^32.                            *)
(***************************************************************************)
W16 == 65536

U32(hi, lo) == [hi |-> hi, lo |-> lo]

Zero32 == U32(0, 0)

RECURSIVE And16(_, _, _)
And16(x, y, n) ==
    IF n = 0 THEN 0
    ELSE (x % 2) * (y % 2) + 2 * And16(x \div 2, y \div 2, n - 1)

And32(a, b) == U32(And16(a.hi, b.hi, 16), And16(a.lo, b.lo, 16))

Not32(a) == U32(W16 - 1 - a.hi, W16 - 1 - a.lo)

Add32(a, b) ==
    LET s == a.lo + b.lo
    IN  U32((a.hi + b.hi + (s \div W16)) % W16, s % W16)

RECURSIVE Pow2(_)
Pow2(n) == IF n = 0 THEN 1 ELSE 2 * Pow2(n - 1)

Shr1(a) == U32(a.hi \div 2, (a.lo \div 2) + (a.hi % 2) * 32768)

(* a << k and a >> k for k in 0..31, on the halves *)
Shl32(a, k) ==
    IF k < 16
    THEN U32((a.hi * Pow2(k) + (a.lo \div Pow2(16 - k))) % W16, (a.lo * Pow2(k)) % W16)
    ELSE U32((a.lo * Pow2(k - 16)) % W16, 0)

Shr32(a, k) ==
    IF k < 16
    THEN U32(a.hi \div Pow2(k), (a.lo \div Pow2(k)) + (a.hi % Pow2(k)) * Pow2(16 - k))
    ELSE U32(0, a.hi \div Pow2(k - 16))

(* the IEEE-754 binary32 fields of a word *)
SignOf(w) == w.hi \div 32768
ExpOf(w)  == (w.hi \div 128) % 256
FracOf(w) == (w.hi % 128) * W16 + w.lo

MkFloat(s, e, f) == U32(s * 32768 + e * 128 + (f \div W16), f % W16)

(* isnan() and the C comparison a == b of two floats, on their words *)
IsNaN(w)  == ExpOf(w) = 255 /\ FracOf(w) # 0
IsZero(w) == ExpOf(w) = 0 /\ FracOf(w) = 0
FloatEq(a, b) == ~IsNaN(a) /\ ~IsNaN(b) /\ (a = b \/ (IsZero(a) /\ IsZero(b)))

(* netcdf.h: #define NC_FILL_FLOAT (9.9692099683868690e+36f), word 0x7CF00000 *)
NC_FILL_FLOAT == MkFloat(0, 249, 7 * 1048576)

BIT_XPL_NBR_SGN_FLT == 23

(***************************************************************************)
(* bitround: the mask pair and the loop over the buffer.                   *)
(***************************************************************************)
(* msk_f32_u32_zro = ~0u << (23 - nsb); msk_f32_u32_one = ~msk_f32_u32_zro; *)
(* msk_f32_u32_hshv = msk_f32_u32_one & (msk_f32_u32_zro >> 1)             *)
(* mutant: the shift counts the implicit leading bit of the significand    *)
bitround_masks_implicit(nsb) ==
    LET zro == Shl32(Not32(Zero32), BIT_XPL_NBR_SGN_FLT + 1 - nsb)
        one == Not32(zro)
    IN  [zro |-> zro, one |-> one, hshv |-> And32(one, Shr1(zro))]

bitround_masks(nsb) ==
    LET zro == Shl32(Not32(Zero32), BIT_XPL_NBR_SGN_FLT - nsb)
        one == Not32(zro)
    IN  [zro |-> zro, one |-> one, hshv |-> And32(one, Shr1(zro))]

(* the mask pairs of the 23 valid nsb, computed once *)
MaskTable == [nsb \in 1 .. BIT_XPL_NBR_SGN_FLT |-> bitround_masks(nsb)]

msk_f32_u32_zro(nsb) == MaskTable[nsb].zro

msk_f32_u32_hshv(nsb) == MaskTable[nsb].hshv

(* mutants of the word operation *)
apply_round_trunc(word, nsb) == And32(word, msk_f32_u32_zro(nsb))

apply_round_unit(word, nsb) ==
    And32(Add32(word, Add32(Not32(msk_f32_u32_zro(nsb)), U32(0, 1))),
          msk_f32_u32_zro(nsb))

apply_round_nomask(word, nsb) == Add32(word, msk_f32_u32_hshv(nsb))

(* mutant: one less than hshv is added, so that a tie is truncated         *)
apply_round_tiedown(word, nsb) ==
    And32(Add32(Add32(word, msk_f32_u32_hshv(nsb)), Not32(Zero32)),
          msk_f32_u32_zro(nsb))

(* u32_ptr[idx] += hshv; u32_ptr[idx] &= mask *)
apply_round(word, nsb) ==
    And32(Add32(word, msk_f32_u32_hshv(nsb)), msk_f32_u32_zro(nsb))

(* mutant: the missing-value test is left out of the loop condition *)
bitround_nomiss(nsb, v, missval) ==
    [idx \in DOMAIN v |->
        IF ~IsNaN(v[idx]) THEN apply_round(v[idx], nsb) ELSE v[idx]]

bitround(nsb, v, missval) ==
    [idx \in DOMAIN v |->
        IF ~FloatEq(v[idx], missval) /\ ~IsNaN(v[idx])
        THEN apply_round(v[idx], nsb)
        ELSE v[idx]]

(* main: missval is NC_FILL_FLOAT unless the variable has a _FillValue *)
MissvalOf(has_fillvalue, fillvalue) ==
    IF has_fillvalue THEN fillvalue ELSE NC_FILL_FLOAT

(***************************************************************************)
(* Inputs of the rounding specification.                                   *)
(***************************************************************************)
MaxLen == 2

(* fractions: two leading bits, two trailing bits, and a run of 19 equal   *)
(* bits between them                                                       *)
Fractions ==
    { top * Pow2(21) + mid * (Pow2(21) - Pow2(2)) + low :
        top \in 0 .. 3, mid \in 0 .. 1, low \in 0 .. 3 }

(* sign and biased exponent: +-0 and subnormals, normal numbers of both     *)
(* signs, the largest finite exponent, infinities and NaNs                 *)
SignExponents == { <<0, 0>>, <<1, 0>>, <<0, 127>>, <<1, 127>>, <<0, 254>>, <<1, 255>> }

RoundWords ==
    { MkFloat(se[1], se[2], f) : se \in SignExponents, f \in Fractions }
    \cup { NC_FILL_FLOAT, U32(16286, 1618) }       \* 0x3F9E0652 = 1.234567f

(* the elements that follow the first one in a longer buffer *)
Companions == << MkFloat(0, 255, 1), NC_FILL_FLOAT, MkFloat(0, 127, 8388607) >>

RoundBuffers ==
    { <<>> } \cup
    { <<w>> \o SubSeq(Companions, 1, n - 1) : w \in RoundWords, n \in 1 .. MaxLen }

(* _FillValue attributes tried: 0.0f and 2.0f *)
FillValues == { MkFloat(0, 0, 0), MkFloat(0, 128, 0) }

RndInit ==
    /\ rnd \in [ in : RoundBuffers, has_fillvalue : {FALSE}, fillvalue : {NC_FILL_FLOAT},
                 nsbs : {<<>>}, v1 : {<<>>}, v2 : {<<>>} ]
            \cup
            [ in : RoundBuffers, has_fillvalue : {TRUE}, fillvalue : FillValues,
              nsbs : {<<>>}, v1 : {<<>>}, v2 : {<<>>} ]
    /\ kb = [pc |-> "idle"]
    /\ br = [pc |-> "idle"]
    /\ cc = [pc |-> "idle"]
    /\ sx = [pc |-> "idle"]
    /\ bc = [pc |-> "idle"]
    /\ bp = [pc |-> "idle"]
    /\ od = [pc |-> "idle"]
    /\ dl = [pc |-> "idle"]

RndMissval == MissvalOf(rnd.has_fillvalue, rnd.fillvalue)

(* bitround(nsb, varsize, data, missval) on the buffer as read *)
RndRound ==
    /\ rnd.nsbs = <<>>
    /\ \E nsb \in 1 .. 23 :
          rnd' = [rnd EXCEPT !.nsbs = <<nsb>>,
                             !.v1 = bitround(nsb, rnd.in, RndMissval)]
    /\ UNCHANGED <<kb, br, cc, sx, bc, bp, od, dl>>

(* bitround on the rounded buffer (a second run over the output) *)
RndRoundAgain ==
    /\ Len(rnd.nsbs) = 1
    /\ \E nsb \in 1 .. rnd.nsbs[1] :
          rnd' = [rnd EXCEPT !.nsbs = Append(rnd.nsbs, nsb),
                             !.v2 = bitround(nsb, rnd.v1, RndMissval)]
    /\ UNCHANGED <<kb, br, cc, sx, bc, bp, od, dl>>

RndNext == RndRound \/ RndRoundAgain

SpecRound == RndInit /\ [][RndNext]_vars

(* an element that bitround rewrites (it is neither NaN nor the missing value) *)
RndRounded(w) == ~IsNaN(w) /\ ~FloatEq(w, RndMissval)

RndUnit(nsb) == Add32(Not32(msk_f32_u32_zro(nsb)), U32(0, 1))

(* C1 as claimed: bitround leaves the sign bit and the exponent field of   *)
(* every finite element (biased exponent 0..254) as they were.             *)
C1_SignExponentKept ==
    \A i \in DOMAIN rnd.v1 :
        ExpOf(rnd.in[i]) <= 254 =>
            /\ SignOf(rnd.v1[i]) = SignOf(rnd.in[i])
            /\ ExpOf(rnd.v1[i]) = ExpOf(rnd.in[i])

(* C1 as amended: the sign bit of a finite element is kept; the exponent   *)
(* field is kept unless the element is rounded with nsb <= 22 and its      *)
(* fraction is at least 2^23 - 2^(22-nsb), and then the exponent field is  *)
(* one higher and the fraction is zero.                                    *)
RndCarries(w, nsb) ==
    RndRounded(w) /\ nsb <= 22 /\ FracOf(w) >= Pow2(23) - Pow2(22 - nsb)

C1_SignKeptExponentCarry ==
    \A i \in DOMAIN rnd.v1 :
        ExpOf(rnd.in[i]) <= 254 =>
            /\ SignOf(rnd.v1[i]) = SignOf(rnd.in[i])
            /\ IF RndCarries(rnd.in[i], rnd.nsbs[1])
               THEN ExpOf(rnd.v1[i]) = ExpOf(rnd.in[i]) + 1 /\ FracOf(rnd.v1[i]) = 0
               ELSE ExpOf(rnd.v1[i]) = ExpOf(rnd.in[i])

C1_Witness ==
    \E i \in DOMAIN rnd.v1 :
        /\ ExpOf(rnd.in[i]) = 254
        /\ RndCarries(rnd.in[i], rnd.nsbs[1])
        /\ ExpOf(rnd.v1[i]) = 255

(* C2: a second bitround with the same nsb and the same missing value      *)
(* leaves every word of the buffer as the first bitround left it.          *)
C2_Idempotent ==
    (Len(rnd.nsbs) = 2 /\ rnd.nsbs[2] = rnd.nsbs[1]) => rnd.v2 = rnd.v1

C2_Witness ==
    /\ Len(rnd.nsbs) = 2
    /\ rnd.nsbs[2] = rnd.nsbs[1]
    /\ \E i \in DOMAIN rnd.v1 : rnd.v1[i] # rnd.in[i]
    /\ rnd.v2 = rnd.v1

(* C3 as claimed: rounding with nsb1 and then with nsb2 <= nsb1 gives the  *)
(* words that rounding with nsb2 alone gives.                              *)
C3_TwoStepEqualsOneStep ==
    Len(rnd.nsbs) = 2 => rnd.v2 = bitround(rnd.nsbs[2], rnd.in, RndMissval)

(* C3 as amended: for a word rounded in both passes, the two-step result   *)
(* has its low 23 - nsb2 bits zero and is the one-step result or the       *)
(* one-step result plus 2^(23 - nsb2) (mod 2^32).                          *)
C3_TwoStepWithinOneUnit ==
    Len(rnd.nsbs) = 2 =>
        \A i \in DOMAIN rnd.in :
            (RndRounded(rnd.in[i]) /\ RndRounded(rnd.v1[i])) =>
                LET direct == apply_round(rnd.in[i], rnd.nsbs[2])
                IN  /\ And32(rnd.v2[i], Not32(msk_f32_u32_zro(rnd.nsbs[2]))) = Zero32
                    /\ \/ rnd.v2[i] = direct
                       \/ rnd.v2[i] = Add32(direct, RndUnit(rnd.nsbs[2]))

C3_Witness ==
    /\ Len(rnd.nsbs) = 2
    /\ rnd.nsbs[2] < rnd.nsbs[1]
    /\ \E i \in DOMAIN rnd.in :
          /\ RndRounded(rnd.in[i]) /\ RndRounded(rnd.v1[i])
          /\ rnd.v2[i] # apply_round(rnd.in[i], rnd.nsbs[2])
          /\ rnd.v2[i] = Add32(apply_round(rnd.in[i], rnd.nsbs[2]), RndUnit(rnd.nsbs[2]))

(* C4 as claimed: an element is left as it is exactly when it is NaN or a  *)
(* _FillValue is set and the element equals it; every other element is     *)
(* replaced by (word + hshv) & mask.                                       *)
C4_SkipOnlyDeclaredFill ==
    \A i \in DOMAIN rnd.v1 :
        rnd.v1[i] = IF IsNaN(rnd.in[i])
                       \/ (rnd.has_fillvalue /\ FloatEq(rnd.in[i], rnd.fillvalue))
                    THEN rnd.in[i]
                    ELSE apply_round(rnd.in[i], rnd.nsbs[1])

(* C4 as amended: an element is left as it is exactly when it is NaN or    *)
(* equals the missing value, which is the _FillValue when one is set and   *)
(* NC_FILL_FLOAT otherwise; every other element is replaced by             *)
(* (word + hshv) & mask.                                                   *)
C4_SkipNaNOrMissval ==
    \A i \in DOMAIN rnd.v1 :
        rnd.v1[i] = IF IsNaN(rnd.in[i])
                       \/ FloatEq(rnd.in[i], IF rnd.has_fillvalue THEN rnd.fillvalue
                                                                 ELSE NC_FILL_FLOAT)
                    THEN rnd.in[i]
                    ELSE apply_round(rnd.in[i], rnd.nsbs[1])

C4_Witness ==
    \E i \in DOMAIN rnd.v1 :
        /\ ~rnd.has_fillvalue
        /\ rnd.in[i] = NC_FILL_FLOAT
        /\ rnd.v1[i] = rnd.in[i]
        /\ apply_round(rnd.in[i], rnd.nsbs[1]) # rnd.in[i]

(***************************************************************************)
(* get_keepbits.  The doubles of a MutualInformation vector are kept as    *)
(* integer multiples of one unit of information, and inflevel as a         *)
(* fraction num/den, so that every comparison of the code is decided       *)
(* exactly: x > 1.5 * y is 2x > 3y, and c / last > inflevel is             *)
(* c * den > num * last (last > 0).                                        *)
(***************************************************************************)
NBITS == 32
floatNMBITS == 9

Bits == 0 .. NBITS - 1

RECURSIVE MaxOver(_, _, _)
MaxOver(M, i, hi) ==
    IF i = hi THEN M[i]
    ELSE LET rest == MaxOver(M, i + 1, hi) IN IF M[i] > rest THEN M[i] ELSE rest

(* bitInfoMaxLast4 before it is multiplied by 1.5 *)
bitInfoMaxLast4(M) == MaxOver(M, NBITS - 4, NBITS - 1)

infoPerBitCleaned(M) ==
    [i \in Bits |-> IF 2 * M[i] > 3 * bitInfoMaxLast4(M) THEN M[i] ELSE 0]

(* for (i = 1; i < NBITS; ++i) M[i] += M[i - 1] *)
RECURSIVE RunningSum(_, _)
RunningSum(M, i) == IF i = 0 THEN M[0] ELSE RunningSum(M, i - 1) + M[i]

Accumulated(M) == [i \in Bits |-> RunningSum(M, i)]

(* the loop with break over cdf.M[i] > inflevel; NBITS when no index breaks *)
RECURSIVE FirstAbove(_, _, _, _)
FirstAbove(cum, lastBit, inflevel, i) ==
    IF i = NBITS THEN NBITS
    ELSE IF cum[i] * inflevel.den > inflevel.num * lastBit THEN i
    ELSE FirstAbove(cum, lastBit, inflevel, i + 1)

(* keepMantissaBits as it stands before the clamp *)
keepMantissaBits(M, inflevel) ==
    LET cum     == Accumulated(infoPerBitCleaned(M))
        lastBit == cum[NBITS - 1]
        first   == IF lastBit > 0 THEN FirstAbove(cum, lastBit, inflevel, 0) ELSE NBITS
    IN  IF first < NBITS THEN first + 1 - floatNMBITS ELSE 23

(* mutant: the clamp to [1, 23] is left out *)
get_keepbits_noclamp(M, inflevel) == keepMantissaBits(M, inflevel)

(* mutant: the comparison with inflevel is >= *)
get_keepbits_ge(M, inflevel) ==
    LET cum     == Accumulated(infoPerBitCleaned(M))
        lastBit == cum[NBITS - 1]
        hit     == { i \in Bits : cum[i] * inflevel.den >= inflevel.num * lastBit }
        raw     == IF lastBit > 0 /\ hit # {}
                   THEN (CHOOSE i \in hit : \A j \in hit : i <= j) + 1 - floatNMBITS
                   ELSE 23
    IN  IF raw < 1 THEN 1 ELSE IF raw > 23 THEN 23 ELSE raw

get_keepbits(M, inflevel) ==
    LET nsb == keepMantissaBits(M, inflevel)
    IN  IF nsb < 1 THEN 1 ELSE IF nsb > 23 THEN 23 ELSE nsb

(* get_keepbits_monotonic: entries from the first decrease on are zeroed,  *)
(* then the cumulative threshold and the clamp of get_keepbits             *)
RECURSIVE FirstDecrease(_, _)
FirstDecrease(M, i) ==
    IF i = NBITS THEN NBITS
    ELSE IF M[i] < M[i - 1] THEN i
    ELSE FirstDecrease(M, i + 1)

get_keepbits_monotonic(M, inflevel) ==
    LET cut     == FirstDecrease(M, 1)
        cum     == Accumulated([i \in Bits |-> IF i < cut THEN M[i] ELSE 0])
        lastBit == cum[NBITS - 1]
        first   == IF lastBit > 0 THEN FirstAbove(cum, lastBit, inflevel, 0) ELSE NBITS
        nsb     == IF first < NBITS THEN first + 1 - floatNMBITS ELSE 23
    IN  IF nsb < 1 THEN 1 ELSE IF nsb > 23 THEN 23 ELSE nsb

(***************************************************************************)
(* The keep-bits specification: one call of analyze_and_get_nsb from main  *)
(* and main's test of the result before it calls bitround.                 *)
(***************************************************************************)
MaxInfo == 2

(* the bit positions whose information varies: the sign bit, two mantissa  *)
(* bits and two of the last four bits                                      *)
FreeBits == {0, 9, 12, 29, 31}

(* M = nine zeros, 0.5, 0.3, 0.1, 0.05, 0.03, 0.02, seventeen zeros, in    *)
(* units of 0.01                                                           *)
ExampleM ==
    [i \in Bits |-> IF i = 9 THEN 50 ELSE IF i = 10 THEN 30 ELSE IF i = 11 THEN 10
                    ELSE IF i = 12 THEN 5 ELSE IF i = 13 THEN 3 ELSE IF i = 14 THEN 2
                    ELSE 0]

InfoVectors ==
    { [i \in Bits |-> IF i \in FreeBits THEN f[i] ELSE 0] : f \in [FreeBits -> 0 .. MaxInfo] }
    \cup { ExampleM }

Frac(n, d) == [num |-> n, den |-> d]

InfLevels == { Frac(0, 1), Frac(1, 2), Frac(99, 100), Frac(1, 1) }

KbInit ==
    /\ kb \in [ pc : {"start"}, len : 1 .. MaxLen, malloc_ok : BOOLEAN,
                M : InfoVectors, inflevel : InfLevels, use_monotonic : BOOLEAN,
                via : {"none"}, nsb : {0}, rounded_with : {0} ]
    /\ rnd = [pc |-> "idle"]
    /\ br = [pc |-> "idle"]
    /\ cc = [pc |-> "idle"]
    /\ sx = [pc |-> "idle"]
    /\ bc = [pc |-> "idle"]
    /\ bp = [pc |-> "idle"]
    /\ od = [pc |-> "idle"]
    /\ dl = [pc |-> "idle"]

(* analyze_and_get_nsb(len, v, infLevel, use_monotonic); kb.M is what      *)
(* bitinformation returns for the remapped copy                            *)
analyze_and_get_nsb ==
    /\ kb.pc = "start"
    /\ kb' = IF kb.len < 2
             THEN [kb EXCEPT !.pc = "analysed", !.via = "short", !.nsb = 1]
             ELSE IF ~kb.malloc_ok
             THEN [kb EXCEPT !.pc = "analysed", !.via = "nomem", !.nsb = -1]
             ELSE IF kb.use_monotonic
             THEN [kb EXCEPT !.pc = "analysed", !.via = "get_keepbits_monotonic",
                             !.nsb = get_keepbits_monotonic(kb.M, kb.inflevel)]
             ELSE [kb EXCEPT !.pc = "analysed", !.via = "get_keepbits",
                             !.nsb = get_keepbits(kb.M, kb.inflevel)]
    /\ UNCHANGED <<rnd, br, cc, sx, bc, bp, od, dl>>

(* main: if (nsb > 0 && nsb <= 23) bitround(nsb, ...) *)
KbRoundIfValid ==
    /\ kb.pc = "analysed"
    /\ kb' = [kb EXCEPT !.pc = "done",
                        !.rounded_with = IF kb.nsb > 0 /\ kb.nsb <= 23 THEN kb.nsb ELSE 0]
    /\ UNCHANGED <<rnd, br, cc, sx, bc, bp, od, dl>>

KbNext == analyze_and_get_nsb \/ KbRoundIfValid

SpecKeep == KbInit /\ [][KbNext]_vars

(* C5: get_keepbits returns an nsb in 1..23, and bitround is only called   *)
(* with an nsb in 1..23.                                                   *)
C5_KeepBitsInRange ==
    /\ kb.via = "get_keepbits" => kb.nsb \in 1 .. 23
    /\ (kb.pc = "done" /\ kb.rounded_with # 0) => kb.rounded_with \in 1 .. 23

C5_Witness ==
    /\ kb.pc = "done"
    /\ kb.via = "get_keepbits"
    /\ keepMantissaBits(kb.M, kb.inflevel) < 1
    /\ kb.rounded_with = 1

(* the claim's own reading of the default rule *)
C6_Filtered(M) ==
    LET tail == CHOOSE t \in {M[i] : i \in 28 .. 31} : \A i \in 28 .. 31 : M[i] <= t
    IN  [i \in Bits |-> IF 2 * M[i] > 3 * tail THEN M[i] ELSE 0]

RECURSIVE C6_Sum(_, _)
C6_Sum(f, i) == IF i < 0 THEN 0 ELSE f[i] + C6_Sum(f, i - 1)

(* F[i] > inflevel, with F[i] = C[i] / C[31] *)
C6_Above(M, inflevel, i) ==
    C6_Sum(C6_Filtered(M), i) * inflevel.den > inflevel.num * C6_Sum(C6_Filtered(M), 31)

C6_Clamp(n) == IF n < 1 THEN 1 ELSE IF n > 23 THEN 23 ELSE n

C6_IsFirstAbove(M, inflevel, i) ==
    C6_Above(M, inflevel, i) /\ \A j \in 0 .. i - 1 : ~C6_Above(M, inflevel, j)

(* C6 as claimed: get_keepbits returns 23 when the filtered entries sum to *)
(* 0, and otherwise clamp(i* + 1 - 9, 1, 23) for the smallest index i*     *)
(* whose normalised cumulative sum is greater than inflevel; the example   *)
(* vector with inflevel 0.99 gives 6.                                      *)
C6_FirstIndexAbove ==
    kb.via = "get_keepbits" =>
        /\ IF C6_Sum(C6_Filtered(kb.M), 31) = 0
           THEN kb.nsb = 23
           ELSE \E i \in Bits : /\ C6_IsFirstAbove(kb.M, kb.inflevel, i)
                                /\ kb.nsb = C6_Clamp(i + 1 - 9)
        /\ (kb.M = ExampleM /\ kb.inflevel = Frac(99, 100)) => kb.nsb = 6

(* C6 as amended: as claimed, and 23 as well when no index has a           *)
(* normalised cumulative sum greater than inflevel (inflevel = 1).         *)
C6_FirstIndexAboveOr23 ==
    kb.via = "get_keepbits" =>
        /\ IF C6_Sum(C6_Filtered(kb.M), 31) = 0
           THEN kb.nsb = 23
           ELSE IF \A i \in Bits : ~C6_Above(kb.M, kb.inflevel, i)
           THEN kb.nsb = 23 /\ kb.inflevel.num = kb.inflevel.den
           ELSE \E i \in Bits : /\ C6_IsFirstAbove(kb.M, kb.inflevel, i)
                                /\ kb.nsb = C6_Clamp(i + 1 - 9)
        /\ (kb.M = ExampleM /\ kb.inflevel = Frac(99, 100)) => kb.nsb = 6

C6_Witness ==
    /\ kb.via = "get_keepbits"
    /\ kb.M = ExampleM
    /\ kb.inflevel = Frac(99, 100)
    /\ C6_IsFirstAbove(kb.M, kb.inflevel, 14)
    /\ kb.nsb = 6

(***************************************************************************)
(* The bit-round main: the definition pass over the input variables, the   *)
(* data pass, and the close.  The model starts after both files are open   *)
(* and the dimensions are defined.  Variable names are numbers; a          *)
(* variable is a coordinate variable when its name is a dimension name.    *)
(* What analyze_and_get_nsb returns for a buffer of two or more values is  *)
(* drawn from AnalysisResults (the logarithms of bitinformation are not    *)
(* computed here).                                                         *)
(***************************************************************************)
MaxVars == 2

(* the cases of the switch in copy_non_float_variable *)
CopiedTypes ==
    {"NC_BYTE", "NC_SHORT", "NC_INT", "NC_INT64", "NC_DOUBLE", "NC_CHAR", "NC_STRING"}

(* the other atomic types of netcdf.h, which reach the default case *)
UnsignedTypes == {"NC_UBYTE", "NC_USHORT", "NC_UINT", "NC_UINT64"}

W1 == U32(16286, 1618)             \* 0x3F9E0652
W2 == MkFloat(0, 127, 8388607)     \* 0x3FFFFFFF
WNaN == MkFloat(0, 255, 1)
WTwo == MkFloat(0, 128, 0)         \* 2.0f

InVar(vartype, coord, dims, data, has_fill, fill) ==
    [vartype |-> vartype, coord |-> coord, dims |-> dims, data |-> data,
     has_fillvalue |-> has_fill, fillvalue |-> fill, natts |-> IF has_fill THEN 1 ELSE 0,
     chunking |-> <<>>, filters |-> <<>>]

(* the variable v stored in IN in chunks of the given shape, behind the    *)
(* given filters; <<>> is contiguous storage                               *)
Chunked(v, chunking, filters) ==
    [v EXCEPT !.chunking = chunking, !.filters = filters]

FloatVars ==
    { InVar("NC_FLOAT", FALSE, <<2>>, <<W1, W2>>, FALSE, NC_FILL_FLOAT),
      InVar("NC_FLOAT", FALSE, <<2>>, <<W1, WNaN>>, FALSE, NC_FILL_FLOAT),
      InVar("NC_FLOAT", FALSE, <<2>>, <<WTwo, W1>>, TRUE, WTwo),
      InVar("NC_FLOAT", FALSE, <<2>>, <<NC_FILL_FLOAT, W1>>, FALSE, NC_FILL_FLOAT),
      InVar("NC_FLOAT", FALSE, <<2, 1, 2>>, <<W1, W2, W2, W1>>, FALSE, NC_FILL_FLOAT),
      Chunked(InVar("NC_FLOAT", FALSE, <<2, 1, 1>>, <<W1, W2>>, FALSE, NC_FILL_FLOAT),
              <<1, 1, 1>>, <<"shuffle", "deflate">>),
      InVar("NC_FLOAT", FALSE, <<2, 1, 2>>, <<W1, W2, WNaN, W1>>, FALSE, NC_FILL_FLOAT),
      InVar("NC_FLOAT", FALSE, <<1>>, <<W2>>, FALSE, NC_FILL_FLOAT),
      InVar("NC_FLOAT", FALSE, <<0>>, <<>>, FALSE, NC_FILL_FLOAT),
      InVar("NC_FLOAT", TRUE, <<2>>, <<W1, W2>>, FALSE, NC_FILL_FLOAT) }

NonFloatVars ==
    { InVar(t, c, <<2>>, <<1, 2>>, FALSE, NC_FILL_FLOAT) :
        t \in CopiedTypes \cup UnsignedTypes, c \in BOOLEAN }

(* the variables that precede the last one of a file *)
LeadingVars ==
    { InVar("NC_FLOAT", FALSE, <<2>>, <<W1, W2>>, FALSE, NC_FILL_FLOAT),
      InVar("NC_FLOAT", FALSE, <<2>>, <<W1, WNaN>>, FALSE, NC_FILL_FLOAT),
      InVar("NC_INT", FALSE, <<2>>, <<1, 2>>, FALSE, NC_FILL_FLOAT) }

RECURSIVE SeqsUpTo(_, _)
SeqsUpTo(S, n) ==
    IF n = 0 THEN { <<>> }
    ELSE LET shorter == SeqsUpTo(S, n - 1)
         IN  shorter \cup { Append(q, x) : q \in shorter, x \in S }

InputFiles ==
    { Append(q, x) : q \in SeqsUpTo(LeadingVars, MaxVars - 1), x \in FloatVars \cup NonFloatVars }

AnalysisResults == {-1, 1, 10, 23}

CompressionLevels == {0, 5}

RECURSIVE Product(_)
Product(dims) == IF dims = <<>> THEN 1 ELSE Head(dims) * Product(Tail(dims))

(* chunk_size: the product of the last two dimension lengths *)
ChunkSize(dims) ==
    Product(SubSeq(dims, IF Len(dims) > 2 THEN Len(dims) - 1 ELSE 1, Len(dims)))

BrInit ==
    /\ br \in [ pc : {"define"}, in : InputFiles, compression_level : CompressionLevels,
                varid : {0}, out : {<<>>}, defined : {<<>>}, log : {<<>>},
                reader_failed : {FALSE}, put_refused : {FALSE},
                writer_failed : {FALSE} ]
    /\ rnd = [pc |-> "idle"]
    /\ kb = [pc |-> "idle"]
    /\ cc = [pc |-> "idle"]
    /\ sx = [pc |-> "idle"]
    /\ bc = [pc |-> "idle"]
    /\ bp = [pc |-> "idle"]
    /\ od = [pc |-> "idle"]
    /\ dl = [pc |-> "idle"]

nvars == Len(br.in)

(* the variable with input id varid, and its name *)
InVarAt(varid) == br.in[varid + 1]
VarName(varid) == varid + 1

(* the loop over nc_inq_dimname: strcmp(varname, dimname) == 0 for some d *)
is_coordinate(varid) == InVarAt(varid).coord

(* the chunk sizes main gives a float variable when compression is on *)
Chunksizes(dims) ==
    [d \in 1 .. Len(dims) |->
        IF Len(dims) >= 3 /\ d <= Len(dims) - 2 THEN 1 ELSE dims[d]]

(* one iteration of the definition loop *)
BrDefineVar ==
    /\ br.pc = "define"
    /\ br.varid < nvars
    /\ \E inq_ok \in BOOLEAN :
          LET v == InVarAt(br.varid)
              compress == br.compression_level > 0
              chunked  == compress /\ ~is_coordinate(br.varid) /\ v.vartype = "NC_FLOAT"
              def == [name |-> VarName(br.varid), vartype |-> v.vartype,
                      ndims |-> Len(v.dims),
                      chunking |-> IF chunked THEN Chunksizes(v.dims) ELSE <<>>,
                      shuffle |-> compress, deflate |-> compress,
                      deflate_level |-> br.compression_level,
                      natts |-> v.natts, written |-> FALSE, data |-> <<>>]
          IN  br' = [br EXCEPT
                        !.varid = br.varid + 1,
                        !.defined = Append(br.defined, inq_ok),
                        !.out = IF inq_ok THEN Append(br.out, def) ELSE br.out,
                        !.reader_failed = br.reader_failed \/ ~inq_ok]
    /\ UNCHANGED <<rnd, kb, cc, sx, bc, bp, od, dl>>

(* the global attributes and nc_enddef *)
BrEndDef ==
    /\ br.pc = "define"
    /\ br.varid = nvars
    /\ br' = [br EXCEPT !.pc = "data", !.varid = 0]
    /\ UNCHANGED <<rnd, kb, cc, sx, bc, bp, od, dl>>

(* nc_put_var_<type>(ncid_out, varid, data): the output variable with id   *)
(* varid, if there is one, takes the buffer                                *)
nc_put_var(out, varid, data) ==
    IF varid < Len(out)
    THEN [out EXCEPT ![varid + 1].written = TRUE, ![varid + 1].data = data]
    ELSE out

(* the scan for NaN or the declared fill value *)
contains_missing(v) ==
    \E i \in DOMAIN v.data :
        IsNaN(v.data[i]) \/ (v.has_fillvalue /\ FloatEq(v.data[i], v.fillvalue))

(* what analyze_and_get_nsb can return for len values *)
AnalysisOf(len) == IF len < 2 THEN {1} ELSE AnalysisResults

(* the buffer after the chunk loop: chunk c is rounded if its nsb is valid *)
RoundedChunks(data, chunk_size, nsbs, missval) ==
    [i \in DOMAIN data |->
        LET c     == ((i - 1) \div chunk_size) + 1
            chunk == SubSeq(data, (c - 1) * chunk_size + 1, c * chunk_size)
        IN  IF nsbs[c] > 0 /\ nsbs[c] <= 23
            THEN bitround(nsbs[c], chunk, missval)[i - (c - 1) * chunk_size]
            ELSE data[i]]

(* the float branch for a variable that is no coordinate and was read *)
RoundFloatVar(v, nsbs) ==
    LET missval == MissvalOf(v.has_fillvalue, v.fillvalue)
    IN  IF Len(v.dims) <= 2
        THEN IF nsbs[1] > 0 /\ nsbs[1] <= 23
             THEN bitround(nsbs[1], v.data, missval)
             ELSE v.data
        ELSE RoundedChunks(v.data, ChunkSize(v.dims), nsbs, missval)

NumChunks(v) ==
    IF Len(v.dims) <= 2 THEN 1 ELSE Product(v.dims) \div ChunkSize(v.dims)

ChunkLen(v) == IF Len(v.dims) <= 2 THEN Product(v.dims) ELSE ChunkSize(v.dims)

BrLogged(path, buf) ==
    [br EXCEPT !.varid = br.varid + 1,
               !.log = Append(br.log, [path |-> path, buf |-> buf])]

(* an iteration that calls nc_put_var_<type>(ncid_out, varid, buf): the    *)
(* call fails if the library cannot write (put_ok is false) or if OUT has  *)
(* no variable with id varid; its return value is never read               *)
BrPut(path, buf, put_ok) ==
    [BrLogged(path, buf) EXCEPT
        !.out = IF put_ok THEN nc_put_var(br.out, br.varid, buf) ELSE br.out,
        !.put_refused = br.put_refused \/ ~put_ok,
        !.writer_failed = br.writer_failed \/ ~put_ok \/ br.varid >= Len(br.out)]

(* one iteration of the data loop *)
BrProcessVar ==
    /\ br.pc = "data"
    /\ br.varid < nvars
    /\ \E inq_ok \in BOOLEAN, got_data \in BOOLEAN, put_ok \in BOOLEAN :
       LET v == InVarAt(br.varid)
           varsize == Product(v.dims)
       IN
       IF ~inq_ok
       THEN br' = [BrLogged("inq_failed", <<>>) EXCEPT !.reader_failed = TRUE]
       ELSE IF varsize = 0
       THEN br' = BrLogged("empty", <<>>)
       ELSE IF v.vartype = "NC_FLOAT" /\ is_coordinate(br.varid)
       THEN IF got_data
            THEN br' = BrPut("coordinate", v.data, put_ok)
            ELSE br' = [BrLogged("no_data", <<>>) EXCEPT !.reader_failed = TRUE]
       ELSE IF v.vartype = "NC_FLOAT"
       THEN IF ~got_data
            THEN br' = [BrLogged("no_data", <<>>) EXCEPT !.reader_failed = TRUE]
            ELSE IF contains_missing(v)
            THEN br' = BrPut("missing", v.data, put_ok)
            ELSE \E nsbs \in [1 .. NumChunks(v) -> AnalysisOf(ChunkLen(v))] :
                    br' = BrPut("rounded", RoundFloatVar(v, nsbs), put_ok)
       ELSE IF v.vartype \notin CopiedTypes
       THEN br' = BrLogged("copy_failed", <<>>)
       ELSE IF got_data
       THEN br' = BrPut("copied", v.data, put_ok)
       ELSE br' = [BrLogged("no_data", <<>>) EXCEPT !.reader_failed = TRUE]
    /\ UNCHANGED <<rnd, kb, cc, sx, bc, bp, od, dl>>

(* nc_close of both files *)
BrClose ==
    /\ br.pc = "data"
    /\ br.varid = nvars
    /\ br' = [br EXCEPT !.pc = "closed"]
    /\ UNCHANGED <<rnd, kb, cc, sx, bc, bp, od, dl>>

BrNext == BrDefineVar \/ BrEndDef \/ BrProcessVar \/ BrClose

SpecMain == BrInit /\ [][BrNext]_vars

(* the output variable named as input variable varid holds the buffer buf *)
OutHolds(varid, buf) ==
    \E k \in 1 .. Len(br.out) :
        /\ br.out[k].name = VarName(varid)
        /\ br.out[k].written
        /\ br.out[k].data = buf

(* the output variable named as input variable varid holds the input's values *)
HoldsInOut(varid) == OutHolds(varid, InVarAt(varid).data)

VarIds == 0 .. nvars - 1

(* the element types C7 lists *)
C7_Types ==
    {"NC_SHORT", "NC_INT", "NC_INT64", "NC_USHORT", "NC_UINT", "NC_UINT64",
     "NC_DOUBLE", "NC_CHAR", "NC_STRING"}

(* C7: after a run in which every read succeeded and the library carried   *)
(* out every write, every variable whose element type is a signed or       *)
(* unsigned 16-, 32- or 64-bit integer, float64, text or string holds in   *)
(* OUT exactly the values it holds in IN.                                  *)
C7_NonFloatCopied ==
    (br.pc = "closed" /\ ~br.reader_failed /\ ~br.put_refused) =>
        \A varid \in VarIds :
            InVarAt(varid).vartype \in C7_Types => HoldsInOut(varid)

(* C8: after a run in which the library carried out every write it was     *)
(* given, a float32 variable that was defined in OUT and was found to      *)
(* contain a NaN or its declared fill value is in OUT bit-equal to IN, and *)
(* each other defined variable that went through the rounding branch holds *)
(* in OUT the buffer that branch produced.                                 *)
C8_ContaminatedCopiedOthersRounded ==
    (br.pc = "closed" /\ ~br.put_refused) =>
        \A varid \in VarIds :
            (br.defined[varid + 1] /\ br.log[varid + 1].path = "missing") =>
                /\ HoldsInOut(varid)
                /\ \A other \in VarIds \ {varid} :
                       (br.defined[other + 1] /\ br.log[other + 1].path = "rounded") =>
                           OutHolds(other, br.log[other + 1].buf)

(* the statement of C8 for the runs in which no read and no inquiry failed *)
C8_HoldsWithoutReaderErrors ==
    (~br.reader_failed /\ ~br.put_refused) => C8_ContaminatedCopiedOthersRounded

(* a closed run with no failure in which a rounded variable follows a      *)
(* contaminated one *)
C8_ContaminatedSeen ==
    /\ br.pc = "closed"
    /\ ~br.reader_failed
    /\ ~br.put_refused
    /\ \E varid \in VarIds, other \in VarIds :
          /\ other > varid
          /\ br.log[varid + 1].path = "missing"
          /\ br.log[other + 1].path = "rounded"
          /\ br.log[other + 1].buf # InVarAt(other).data

(* C9: after a run in which every read succeeded and the library carried   *)
(* out every write, every coordinate variable holds in OUT exactly the     *)
(* values it holds in IN, whatever its element type.                       *)
C9_CoordinatesCopied ==
    (br.pc = "closed" /\ ~br.reader_failed /\ ~br.put_refused) =>
        \A varid \in VarIds :
            is_coordinate(varid) => HoldsInOut(varid)

(* the statement of C9 for float32 coordinate variables only *)
C9_FloatCoordinatesCopied ==
    (br.pc = "closed" /\ ~br.reader_failed /\ ~br.put_refused) =>
        \A varid \in VarIds :
            (is_coordinate(varid) /\ InVarAt(varid).vartype = "NC_FLOAT") =>
                HoldsInOut(varid)

(* the filters of an output variable, in the order the library applies them *)
FilterStack(def) ==
    (IF def.shuffle THEN <<"shuffle">> ELSE <<>>) \o
    (IF def.deflate THEN <<"deflate">> ELSE <<>>)

(* C15: a run of bit-round in which every read succeeded reaches its       *)
(* successful end, exit status 0, only if no call that writes a variable   *)
(* of OUT has failed.                                                      *)
C15_WriterErrorFatal ==
    (br.pc = "closed" /\ ~br.reader_failed) => ~br.writer_failed

(* C17: in a run without compression level, every variable defined in OUT  *)
(* has the chunk shape and the ordered filter stack of the variable of IN  *)
(* it was defined from.                                                    *)
C17_StoragePreserved ==
    br.compression_level = 0 =>
        \A k \in 1 .. Len(br.out) :
            /\ br.out[k].chunking = br.in[br.out[k].name].chunking
            /\ FilterStack(br.out[k]) = br.in[br.out[k].name].filters

(* the statement of C17 for the variables IN stores contiguously and       *)
(* without filters                                                         *)
C17_DefaultStoragePreserved ==
    br.compression_level = 0 =>
        \A k \in 1 .. Len(br.out) :
            (br.in[br.out[k].name].chunking = <<>> /\ br.in[br.out[k].name].filters = <<>>) =>
                /\ br.out[k].chunking = <<>>
                /\ FilterStack(br.out[k]) = <<>>

(* the float32 variables that the rounding branch handles in units of     *)
(* fewer than 2 values: the whole variable for rank <= 2, a trailing 2-D   *)
(* slab for rank >= 3                                                      *)
ShortUnits(varid) ==
    /\ InVarAt(varid).vartype = "NC_FLOAT"
    /\ ~is_coordinate(varid)
    /\ Product(InVarAt(varid).dims) > 0
    /\ ChunkLen(InVarAt(varid)) < 2

(* C23: after a run in which every read succeeded and the library carried *)
(* out every write, a float32 variable whose units of analysis hold fewer  *)
(* than 2 values is in OUT bit-equal to IN, and the buffer the rounding    *)
(* branch wrote for it is the buffer that was read.                        *)
C23_ShortUnitsCopied ==
    (br.pc = "closed" /\ ~br.reader_failed /\ ~br.put_refused) =>
        \A varid \in VarIds :
            ShortUnits(varid) =>
                /\ HoldsInOut(varid)
                /\ br.log[varid + 1].buf = InVarAt(varid).data

(* the paths of the data loop that hand a buffer to nc_put_var *)
PutPaths == {"coordinate", "missing", "rounded", "copied"}

(* C25: after a run in which the library carried out every write it was    *)
(* given, every variable whose inquiry succeeded in the definition loop is *)
(* defined in OUT, and the buffer the data loop wrote for the input        *)
(* variable named X is held by the output variable named X.                *)
C25_SkipOnlyFailedVariable ==
    (br.pc = "closed" /\ ~br.put_refused) =>
        \A varid \in VarIds :
            br.defined[varid + 1] =>
                /\ \E k \in 1 .. Len(br.out) : br.out[k].name = VarName(varid)
                /\ br.log[varid + 1].path \in PutPaths =>
                       OutHolds(varid, br.log[varid + 1].buf)

(* the first half of C25: a failed inquiry keeps only its own variable     *)
(* out of OUT                                                              *)
C25_OthersDefined ==
    br.pc = "closed" =>
        \A varid \in VarIds :
            br.defined[varid + 1] <=>
                \E k \in 1 .. Len(br.out) : br.out[k].name = VarName(varid)

(* 2^32 - 2^k as a word: the low k bits zero, all higher bits one *)
HighOnes(k) ==
    IF k <= 16 THEN U32(W16 - 1, W16 - Pow2(k)) ELSE U32(W16 - Pow2(k - 16), 0)

(* 2^p as a word *)
OneBit(p) == IF p < 16 THEN U32(0, Pow2(p)) ELSE U32(Pow2(p - 16), 0)

(* C18: for the nsb of a call of bitround, the mask is 2^32 - 2^(23 - nsb)  *)
(* and hshv is 2^(22 - nsb), 0 for nsb = 23; a call with nsb = 23 returns  *)
(* the buffer as it was; nsb = 10 gives the pair (0xFFFFE000, 0x00001000)  *)
(* and turns the word 0x3F9E0652 into 0x3F9E0000.                          *)
C18_MaskPair ==
    rnd.nsbs # <<>> =>
        LET nsb == rnd.nsbs[1]
            m   == bitround_masks(nsb)
        IN  /\ m.zro = HighOnes(BIT_XPL_NBR_SGN_FLT - nsb)
            /\ m.hshv = And32(Not32(m.zro), Shr1(m.zro))
            /\ m.hshv = IF nsb <= 22 THEN OneBit(22 - nsb) ELSE Zero32
            /\ msk_f32_u32_zro(nsb) = m.zro
            /\ msk_f32_u32_hshv(nsb) = m.hshv
            /\ nsb = 23 => rnd.v1 = rnd.in
            /\ nsb = 10 =>
                  /\ m.zro = U32(65535, 57344)
                  /\ m.hshv = U32(0, 4096)
                  /\ \A i \in DOMAIN rnd.in :
                         rnd.in[i] = U32(16286, 1618) => rnd.v1[i] = U32(16286, 0)

(* a call with nsb = 10 on a buffer that holds 0x3F9E0652 *)
C18_Witness ==
    /\ rnd.nsbs # <<>>
    /\ rnd.nsbs[1] = 10
    /\ \E i \in DOMAIN rnd.in :
          rnd.in[i] = U32(16286, 1618) /\ rnd.v1[i] = U32(16286, 0)

(* a call with nsb = 23 on a buffer with a finite word with low bits set *)
C18_Witness23 ==
    /\ rnd.nsbs # <<>>
    /\ rnd.nsbs[1] = 23
    /\ \E i \in DOMAIN rnd.in :
          RndRounded(rnd.in[i]) /\ FracOf(rnd.in[i]) % 4 = 3 /\ rnd.v1[i] = rnd.in[i]

(* the bits of the word that the mask of nsb removes, and the word with    *)
(* them set to zero                                                        *)
Discarded(w, nsb) == FracOf(w) % Pow2(BIT_XPL_NBR_SGN_FLT - nsb)

Truncated(w, nsb) == And32(w, HighOnes(BIT_XPL_NBR_SGN_FLT - nsb))

(* the next word above Truncated(w, nsb) whose low 23 - nsb bits are zero *)
NextAbove(w, nsb) == Add32(Truncated(w, nsb), OneBit(BIT_XPL_NBR_SGN_FLT - nsb))

(* C19 as claimed: for a finite word that is rounded and nsb in 1..22, the *)
(* result is the nearer of the two words with the low 23 - nsb bits zero   *)
(* that enclose it, and on a tie the one with the lower mantissa.          *)
C19_NearestTiesDown ==
    (rnd.nsbs # <<>> /\ rnd.nsbs[1] <= 22) =>
        \A i \in DOMAIN rnd.in :
            (RndRounded(rnd.in[i]) /\ ExpOf(rnd.in[i]) <= 254) =>
                rnd.v1[i] = IF Discarded(rnd.in[i], rnd.nsbs[1]) <= Pow2(22 - rnd.nsbs[1])
                            THEN Truncated(rnd.in[i], rnd.nsbs[1])
                            ELSE NextAbove(rnd.in[i], rnd.nsbs[1])

(* C19 as amended: the result is the nearer of the two words, and on a tie *)
(* the one above, whose mantissa has the higher magnitude (the carry may   *)
(* reach the exponent field).                                              *)
C19_NearestTiesUp ==
    (rnd.nsbs # <<>> /\ rnd.nsbs[1] <= 22) =>
        \A i \in DOMAIN rnd.in :
            (RndRounded(rnd.in[i]) /\ ExpOf(rnd.in[i]) <= 254) =>
                rnd.v1[i] = IF Discarded(rnd.in[i], rnd.nsbs[1]) < Pow2(22 - rnd.nsbs[1])
                            THEN Truncated(rnd.in[i], rnd.nsbs[1])
                            ELSE NextAbove(rnd.in[i], rnd.nsbs[1])

(* a tie that was rounded to the word above *)
C19_Witness ==
    /\ rnd.nsbs # <<>>
    /\ rnd.nsbs[1] <= 22
    /\ \E i \in DOMAIN rnd.in :
          /\ RndRounded(rnd.in[i])
          /\ ExpOf(rnd.in[i]) <= 254
          /\ Discarded(rnd.in[i], rnd.nsbs[1]) = Pow2(22 - rnd.nsbs[1])
          /\ rnd.v1[i] = NextAbove(rnd.in[i], rnd.nsbs[1])
          /\ rnd.v1[i] # Truncated(rnd.in[i], rnd.nsbs[1])

(***************************************************************************)
(* signed_exponent: the remapping of the exponent field that               *)
(* analyze_and_get_nsb applies to its copy of the buffer before the bit    *)
(* information is computed.                                                *)
(***************************************************************************)
Or32(a, b) == Not32(And32(Not32(a), Not32(b)))

float_sign_mask == U32(32768, 0)                \* 0x80000000

float_significand_mask == U32(127, 65535)       \* 0x007fffff

float_exponent_mask == U32(32640, 0)            \* 0x7f800000

float_significand_bits == 23

float_exponent_bias == 127

(* mutant: the sign of the exponent is put in the bit of the float's sign *)
signed_exponent_kernel_signbit(Auint) ==
    LET sf      == And32(Auint, Or32(float_sign_mask, float_significand_mask))
        e       == Shr32(And32(Auint, float_exponent_mask), float_significand_bits).lo
                   - float_exponent_bias
        eabs    == IF e < 0 THEN -e ELSE e
        esign   == IF e < 0 THEN float_sign_mask ELSE Zero32
    IN  Or32(sf, Or32(esign, Shl32(U32(0, eabs), float_significand_bits)))

(* mutant: the sign of the exponent is dropped *)
signed_exponent_kernel_nosign(Auint) ==
    LET sf      == And32(Auint, Or32(float_sign_mask, float_significand_mask))
        e       == Shr32(And32(Auint, float_exponent_mask), float_significand_bits).lo
                   - float_exponent_bias
        eabs    == IF e < 0 THEN -e ELSE e
    IN  Or32(sf, Shl32(U32(0, eabs), float_significand_bits))

signed_exponent_kernel(Auint) ==
    LET sfmask    == Or32(float_sign_mask, float_significand_mask)
        emask     == float_exponent_mask
        esignmask == Shr1(float_sign_mask)
        sbits     == float_significand_bits
        bias      == float_exponent_bias
        ui        == Auint
        sf        == And32(ui, sfmask)
        e         == Shr32(And32(ui, emask), sbits).lo - bias
        eabs      == IF e < 0 THEN -e ELSE e
        esign     == IF e < 0 THEN esignmask ELSE Zero32
        esigned   == Or32(esign, Shl32(U32(0, eabs), sbits))
    IN  Or32(sf, esigned)

signed_exponent(A) == [i \in DOMAIN A |-> signed_exponent_kernel(A[i])]

(* the words tried: both signs, every biased exponent, four fractions *)
SxFractions == { 0, 1, 4194304, 8388607 }

SxWords ==
    { MkFloat(s, eb, f) : s \in 0 .. 1, eb \in 0 .. 255, f \in SxFractions }

(* the elements that follow the first one in a longer buffer: 0.5f, 1.0f, 2.0f *)
SxCompanions == << MkFloat(0, 126, 0), MkFloat(0, 127, 0), MkFloat(0, 128, 0) >>

SxBuffers ==
    { <<w>> \o SubSeq(SxCompanions, 1, n - 1) : w \in SxWords, n \in 1 .. MaxLen }

(* the buffers of two words that differ in the exponent alone *)
SxPairs ==
    { << MkFloat(sgn, pr[1], 0), MkFloat(sgn, pr[2], 0) >> :
        sgn \in 0 .. 1,
        pr \in { q \in (0 .. 255) \X (0 .. 255) : q[1] < q[2] } }

(* mutant: no private copy is made, v_copy is the caller's buffer itself *)
remap_copy_aliased(v, v_copy) ==
    [v |-> signed_exponent(v), v_copy |-> signed_exponent(v)]

(* analyze_and_get_nsb: signed_exponent(v_copy, len) writes the words of   *)
(* v_copy, the block that malloc returned and memcpy filled; the caller's  *)
(* block v is another one                                                  *)
remap_copy(v, v_copy) ==
    [v |-> v, v_copy |-> signed_exponent(v_copy)]

(* the values analyze_and_get_nsb returns in this part of the model: a     *)
(* failure and a valid count                                               *)
SxNsbs == {-1, 10}

(* the state after memcpy(v_copy, v, len * sizeof(float)): sx.A is v_copy, *)
(* sx.v the caller's buffer                                                *)
SxInit ==
    /\ sx \in { [ pc |-> "copied", A |-> buf, v |-> buf, out |-> <<>>,
                   nsb |-> 0, rounded |-> <<>> ] : buf \in SxBuffers \cup SxPairs }
    /\ rnd = [pc |-> "idle"]
    /\ kb = [pc |-> "idle"]
    /\ br = [pc |-> "idle"]
    /\ cc = [pc |-> "idle"]
    /\ bc = [pc |-> "idle"]
    /\ bp = [pc |-> "idle"]
    /\ od = [pc |-> "idle"]
    /\ dl = [pc |-> "idle"]

(* signed_exponent(v_copy, len) *)
SxApply ==
    /\ sx.pc = "copied"
    /\ LET r == remap_copy(sx.v, sx.A)
       IN  sx' = [sx EXCEPT !.pc = "remapped", !.out = r.v_copy, !.v = r.v]
    /\ UNCHANGED <<rnd, kb, br, cc, bc, bp, od, dl>>

(* main: if (nsb > 0 && nsb <= 23) bitround(nsb, varsize, data, missval),  *)
(* on the buffer that was handed to analyze_and_get_nsb                    *)
SxRound ==
    /\ sx.pc = "remapped"
    /\ \E nsb \in SxNsbs :
          sx' = [sx EXCEPT !.pc = "rounded", !.nsb = nsb,
                           !.rounded = IF nsb > 0 /\ nsb <= 23
                                       THEN bitround(nsb, sx.v, NC_FILL_FLOAT)
                                       ELSE sx.v]
    /\ UNCHANGED <<rnd, kb, br, cc, bc, bp, od, dl>>

SxNext == SxApply \/ SxRound

SpecSigned == SxInit /\ [][SxNext]_vars

(* C20: signed_exponent turns each word with sign bit s, fraction f and    *)
(* biased exponent eb into the word with sign bit s, fraction f, bit 30    *)
(* set if eb < 127, and |eb - 127| added in at bit 23; 1.0f becomes        *)
(* 0x00000000 and 0.5f becomes 0x40800000.                                 *)
C20_SignedExponent ==
    sx.pc \in {"remapped", "rounded"} =>
        /\ Len(sx.out) = Len(sx.A)
        /\ \A i \in DOMAIN sx.A :
              LET s  == SignOf(sx.A[i])
                  f  == FracOf(sx.A[i])
                  eb == ExpOf(sx.A[i])
                  field == IF eb < 127 THEN 128 + (127 - eb) ELSE eb - 127
              IN  /\ sx.out[i] = MkFloat(s, field, f)
                  /\ sx.A[i] = U32(16256, 0) => sx.out[i] = U32(0, 0)
                  /\ sx.A[i] = U32(16128, 0) => sx.out[i] = U32(16512, 0)

(* C30: signed_exponent keeps the sign bit and the fraction bits of every  *)
(* word, and two words of a buffer that differ have images that differ:    *)
(* over the buffers of two exponents, the 256 exponents get 256 distinct   *)
(* fields.                                                                 *)
C30_Injective ==
    sx.pc \in {"remapped", "rounded"} =>
        \A i \in DOMAIN sx.A :
            /\ SignOf(sx.out[i]) = SignOf(sx.A[i])
            /\ FracOf(sx.out[i]) = FracOf(sx.A[i])
            /\ \A j \in DOMAIN sx.A :
                   sx.out[i] = sx.out[j] => sx.A[i] = sx.A[j]

(* a remapped pair of words of exponent 126 and 128, at the same distance  *)
(* from the bias on either side, and one of exponents 0 and 255            *)
C30_Witness ==
    /\ sx.pc = "remapped"
    /\ Len(sx.A) = 2
    /\ SignOf(sx.A[1]) = SignOf(sx.A[2])
    /\ FracOf(sx.A[1]) = FracOf(sx.A[2])
    /\ <<ExpOf(sx.A[1]), ExpOf(sx.A[2])>> \in {<<126, 128>>, <<0, 255>>}
    /\ sx.out[1] # sx.out[2]

(* C28: the buffer the caller handed to analyze_and_get_nsb holds the      *)
(* words that were read, before and after the remap of the copy, and the   *)
(* buffer that main rounds and writes is bitround of those words.          *)
C28_CallerBufferKept ==
    /\ sx.pc # "idle" => sx.v = sx.A
    /\ sx.pc = "rounded" =>
          sx.rounded = IF sx.nsb > 0 /\ sx.nsb <= 23
                       THEN bitround(sx.nsb, sx.A, NC_FILL_FLOAT)
                       ELSE sx.A

(* a rounded buffer whose remapped copy differs from it, and for which     *)
(* rounding the remapped words would have given other words                *)
C28_Witness ==
    /\ sx.pc = "rounded"
    /\ sx.nsb = 10
    /\ sx.out # sx.A
    /\ sx.rounded # sx.A
    /\ sx.rounded # bitround(sx.nsb, sx.out, NC_FILL_FLOAT)

(* a remapped buffer that holds 1.0f first and 0.5f after it *)
C20_Witness ==
    /\ sx.pc = "remapped"
    /\ Len(sx.A) >= 2
    /\ sx.A[1] = U32(16256, 0) /\ sx.out[1] = U32(0, 0)
    /\ sx.A[2] = U32(16128, 0) /\ sx.out[2] = U32(16512, 0)

(***************************************************************************)
(* The concatenator.  hdf_concat.c holds two versions of the program that  *)
(* differ in copy_raw_chunks and in the steps after the chunk copy;        *)
(* cc.version says which one runs.  Datasets have rank 1, so rec_dim is 0; *)
(* a dataset of an input file is given by its extent, chunk extent and     *)
(* filter stack, and the element at position p of the dataset of file f is *)
(* the value <<f, p>>.  The HDF5 library is taken to be 1.10 or later.     *)
(***************************************************************************)
MaxFiles == 2
MaxExtent == 2

(* the dataset paths, in the order H5Ovisit3 visits them *)
Paths == <<"a", "b">>

(* chunk_dims[rec_dim] of each dataset of the first input *)
ChunkDims == [a |-> 2, b |-> 1]

(* the filter stack of each dataset of the first input *)
Filters == [a |-> <<"shuffle", "deflate">>, b |-> <<"deflate">>]

NoDataset == [present |-> FALSE]

InDataset(path, unlimited, extent) ==
    [present |-> TRUE, unlimited |-> unlimited, extent |-> extent,
     chunk |-> ChunkDims[path], filters |-> Filters[path]]

RecordDatasets(path) == { InDataset(path, TRUE, e) : e \in 0 .. MaxExtent }

(* datasets of a later input whose chunk shape or filter stack is not that *)
(* of the first input *)
OtherSchemas(path) ==
    { [InDataset(path, TRUE, 2) EXCEPT !.chunk = 2],
      [InDataset(path, TRUE, 1) EXCEPT !.filters = <<>>] }

FirstFiles ==
    [ a : {InDataset("a", FALSE, 1)} \cup RecordDatasets("a"),
      b : {NoDataset, InDataset("b", FALSE, 1)} \cup RecordDatasets("b") ]

LaterFiles ==
    [ a : RecordDatasets("a"),
      b : {NoDataset, InDataset("b", TRUE, 1)} \cup OtherSchemas("b") ]

InputLists ==
    { <<first>> \o rest :
        first \in FirstFiles, rest \in SeqsUpTo(LaterFiles, MaxFiles - 1) }

(* the command lines: an optional flag, the input paths and, but for the   *)
(* empty command line, the output path                                     *)
CommandLines ==
    [ first_arg : {"-h", "-v", "path"}, files : InputLists \cup {<<>>}, nout : {1} ]
    \cup [ first_arg : {"-v", "path"}, files : {<<>>}, nout : {0} ]

CcInit ==
    /\ \E cl \in CommandLines, version \in {1, 2} :
          cc = [ pc |-> "start", version |-> version, first_arg |-> cl.first_arg,
                 nout |-> cl.nout, verbose |-> FALSE, files |-> cl.files,
                 rv |-> <<>>, f |-> 0, v |-> 0, created |-> FALSE,
                 out |-> [a |-> NoDataset, b |-> NoDataset],
                 raw |-> {}, hyperslabs |-> {}, writer_failed |-> FALSE ]
    /\ rnd = [pc |-> "idle"]
    /\ kb = [pc |-> "idle"]
    /\ br = [pc |-> "idle"]
    /\ sx = [pc |-> "idle"]
    /\ bc = [pc |-> "idle"]
    /\ bp = [pc |-> "idle"]
    /\ od = [pc |-> "idle"]
    /\ dl = [pc |-> "idle"]

argc == 1 + (IF cc.first_arg = "path" THEN 0 ELSE 1) + Len(cc.files) + cc.nout

(* arg_start once the flag has been looked at *)
arg_start(verbose) == IF verbose THEN 2 ELSE 1

n_inputs == argc - arg_start(cc.verbose) - 1

(* the argument checks of main: usage() exits with EXIT_FAILURE *)
CcParse ==
    /\ cc.pc = "start"
    /\ LET verbose == cc.first_arg = "-v"
       IN  IF argc < 3 \/ cc.first_arg = "-h"
           THEN cc' = [cc EXCEPT !.pc = "usage"]
           ELSE IF argc - arg_start(verbose) < 2
           THEN cc' = [cc EXCEPT !.pc = "usage", !.verbose = verbose]
           ELSE cc' = [cc EXCEPT !.pc = "detect", !.verbose = verbose]
    /\ UNCHANGED <<rnd, kb, br, sx, bc, bp, od, dl>>

(* the list detect_recvars_cb builds over the datasets from index i on *)
RECURSIVE detect_recvars(_, _)
detect_recvars(file, i) ==
    IF i > Len(Paths) THEN <<>>
    ELSE LET d == file[Paths[i]]
             rest == detect_recvars(file, i + 1)
         IN  IF d.present /\ d.unlimited
             THEN <<[path |-> Paths[i], rec_dim |-> 0, total_len |-> 0, offset |-> 0]>> \o rest
             ELSE rest

(* 5.1: the record variables of the first input *)
CcDetect ==
    /\ cc.pc = "detect"
    /\ LET rv == detect_recvars(cc.files[1], 1)
       IN  cc' = [cc EXCEPT !.rv = rv,
                            !.pc = IF Len(rv) = 0 THEN "died" ELSE "accumulate"]
    /\ UNCHANGED <<rnd, kb, br, sx, bc, bp, od, dl>>

(* mutant: the length of the file replaces the sum *)
accumulate_lengths_last(rv, file) ==
    [v \in DOMAIN rv |-> [rv[v] EXCEPT !.total_len = file[rv[v].path].extent]]

(* the inner loop of accumulate_lengths for one file *)
accumulate_lengths(rv, file) ==
    [v \in DOMAIN rv |-> [rv[v] EXCEPT !.total_len = @ + file[rv[v].path].extent]]

DatasetMissing(rv, file) == \E v \in DOMAIN rv : ~file[rv[v].path].present

(* 5.2: one iteration of the loop over the files in accumulate_lengths *)
CcAccumulate ==
    /\ cc.pc = "accumulate"
    /\ cc.f < n_inputs
    /\ LET file == cc.files[cc.f + 1]
       IN  IF DatasetMissing(cc.rv, file)
           THEN cc' = [cc EXCEPT !.pc = "died"]
           ELSE cc' = [cc EXCEPT !.rv = accumulate_lengths(cc.rv, file),
                                 !.f = cc.f + 1,
                                 !.pc = IF cc.f + 1 = n_inputs THEN "create" ELSE "accumulate"]
    /\ UNCHANGED <<rnd, kb, br, sx, bc, bp, od, dl>>

(* what H5Ocopy leaves in the output for a dataset of the first input *)
H5Ocopy(d, path) ==
    [present |-> TRUE, path |-> path, unlimited |-> d.unlimited, extent |-> d.extent,
     chunk |-> d.chunk, filters |-> d.filters,
     data |-> [p \in 0 .. d.extent - 1 |-> <<1, p>>]]

(* 5.3: the output file is created and the objects of the first input are  *)
(* copied; a failed H5Ocopy is a warning                                   *)
CcCreate ==
    /\ cc.pc = "create"
    /\ \E copied \in SUBSET {path \in DOMAIN cc.out : cc.files[1][path].present} :
          cc' = [cc EXCEPT
                    !.created = TRUE,
                    !.writer_failed = copied # {path \in DOMAIN cc.out : cc.files[1][path].present},
                    !.out = [path \in DOMAIN cc.out |->
                                IF path \in copied
                                THEN H5Ocopy(cc.files[1][path], path)
                                ELSE NoDataset],
                    !.pc = "extend", !.v = 0]
    /\ UNCHANGED <<rnd, kb, br, sx, bc, bp, od, dl>>

(* H5Dset_extent: the dataset takes the new extent; new positions are fill *)
H5Dset_extent(ds, len) ==
    [ds EXCEPT !.extent = len,
               !.data = [p \in 0 .. len - 1 |->
                            IF p < ds.extent THEN ds.data[p] ELSE "fill"]]

(* 5.4: one iteration of the loop that extends the record datasets *)
CcExtend ==
    /\ cc.pc = "extend"
    /\ cc.v < Len(cc.rv)
    /\ \E extent_ok \in BOOLEAN :
          LET var == cc.rv[cc.v + 1]
              ds  == cc.out[var.path]
          IN  IF ~ds.present \/ ~extent_ok
              THEN cc' = [cc EXCEPT !.pc = "died"]
              ELSE cc' = [cc EXCEPT
                             !.out[var.path] = H5Dset_extent(ds, var.total_len),
                             !.v = cc.v + 1,
                             !.f = 0,
                             !.pc = IF cc.v + 1 = Len(cc.rv) THEN "copy" ELSE "extend"]
    /\ UNCHANGED <<rnd, kb, br, sx, bc, bp, od, dl>>

(* the number of chunks of an input dataset *)
NumChunksOf(extent, chunk) == (extent + chunk - 1) \div chunk

(* H5Dwrite_chunk is refused unless coord is a chunk boundary inside the   *)
(* extent of the output dataset                                            *)
H5Dwrite_chunk_ok(ds, coord) == coord % ds.chunk = 0 /\ coord < ds.extent

(* what the output dataset holds after the raw chunk of the input that     *)
(* starts at in_coord has been written at coord: the payload is decoded    *)
(* with the chunk shape and the filter stack of the output dataset         *)
H5Dwrite_chunk(ds, coord, in_ds, fidx, in_coord) ==
    IF ~H5Dwrite_chunk_ok(ds, coord) THEN ds
    ELSE [ds EXCEPT !.data =
            [p \in DOMAIN ds.data |->
                IF p >= coord /\ p < coord + ds.chunk
                THEN IF in_ds.chunk = ds.chunk /\ in_ds.filters = ds.filters
                     THEN IF in_coord + (p - coord) < in_ds.extent
                          THEN <<fidx, in_coord + (p - coord)>>
                          ELSE "fill"
                     ELSE "garbage"
                ELSE ds.data[p]]]

(* H5Dread of the whole input and H5Dwrite of it at start *)
H5Dwrite(ds, start, in_ds, fidx) ==
    [ds EXCEPT !.data =
        [p \in DOMAIN ds.data |->
            IF p >= start /\ p < start + in_ds.extent
            THEN <<fidx, p - start>>
            ELSE ds.data[p]]]

RawWrite(ds, coord, fidx) ==
    [path |-> ds.path, coord |-> coord, chunk |-> ds.chunk, fidx |-> fidx]

(* the body of the chunk loop of the second version: an input shorter than *)
(* a chunk is written as a hyperslab at rec_offset, any other chunk raw at *)
(* its coordinate plus rec_offset                                          *)
chunk_body(st, in_ds, fidx, rec_offset, idx) ==
    LET in_coord == idx * in_ds.chunk
        coord    == in_coord + rec_offset
    IN  IF in_ds.extent < in_ds.chunk
        THEN [st EXCEPT !.ds = H5Dwrite(st.ds, rec_offset, in_ds, fidx),
                        !.hyperslabs = @ \cup {RawWrite(st.ds, rec_offset, fidx)}]
        ELSE [st EXCEPT !.ds = H5Dwrite_chunk(st.ds, coord, in_ds, fidx, in_coord),
                        !.raw = @ \cup {RawWrite(st.ds, coord, fidx)},
                        !.writer_failed = @ \/ ~H5Dwrite_chunk_ok(st.ds, coord)]

(* the body of the chunk loop of the first version: the shifted coordinate *)
(* is rounded down to a chunk boundary of the input's chunk shape          *)
chunk_body_1(st, in_ds, fidx, rec_offset, idx) ==
    LET in_coord == idx * in_ds.chunk
        coord    == ((in_coord + rec_offset) \div in_ds.chunk) * in_ds.chunk
    IN  [st EXCEPT !.ds = H5Dwrite_chunk(st.ds, coord, in_ds, fidx, in_coord),
                   !.raw = @ \cup {RawWrite(st.ds, coord, fidx)},
                   !.writer_failed = @ \/ ~H5Dwrite_chunk_ok(st.ds, coord)]

(* for (idx = 0; idx < nchunks; ++idx) *)
RECURSIVE ChunkLoop(_, _, _, _, _, _)
ChunkLoop(version, st, in_ds, fidx, rec_offset, idx) ==
    IF idx >= NumChunksOf(in_ds.extent, in_ds.chunk) THEN st
    ELSE ChunkLoop(version,
                   IF version = 1
                   THEN chunk_body_1(st, in_ds, fidx, rec_offset, idx)
                   ELSE chunk_body(st, in_ds, fidx, rec_offset, idx),
                   in_ds, fidx, rec_offset, idx + 1)

NoWrites(ds) == [ds |-> ds, raw |-> {}, hyperslabs |-> {}, writer_failed |-> FALSE]

(* copy_raw_chunks of the second version *)
copy_raw_chunks(in_ds, fidx, out_ds, rec_offset) ==
    ChunkLoop(2, NoWrites(out_ds), in_ds, fidx, rec_offset, 0)

(* copy_raw_chunks of the first version *)
copy_raw_chunks_1(in_ds, fidx, out_ds, rec_offset) ==
    ChunkLoop(1, NoWrites(out_ds), in_ds, fidx, rec_offset, 0)

(* mutant: the offset advances by the chunk extent of the input *)
RECURSIVE CopyVars_bychunk(_, _, _, _)
CopyVars_bychunk(st, file, fidx, v) ==
    IF v > Len(st.rv) THEN st
    ELSE LET var == st.rv[v]
             din == file[var.path]
             dout == st.out[var.path]
         IN  IF ~din.present \/ ~dout.present
             THEN [st EXCEPT !.pc = "died"]
             ELSE LET r == IF st.version = 1
                           THEN copy_raw_chunks_1(din, fidx, dout, var.offset)
                           ELSE copy_raw_chunks(din, fidx, dout, var.offset)
                  IN  CopyVars_bychunk(
                         [st EXCEPT !.out[var.path] = r.ds,
                                    !.raw = @ \cup r.raw,
                                    !.hyperslabs = @ \cup r.hyperslabs,
                                    !.writer_failed = @ \/ r.writer_failed,
                                    !.rv[v].offset = @ + din.chunk],
                         file, fidx, v + 1)

(* the inner loop of 5.5 over the record variables from index v on *)
RECURSIVE CopyVars(_, _, _, _)
CopyVars(st, file, fidx, v) ==
    IF v > Len(st.rv) THEN st
    ELSE LET var == st.rv[v]
             din == file[var.path]
             dout == st.out[var.path]
         IN  IF ~din.present \/ ~dout.present
             THEN [st EXCEPT !.pc = "died"]
             ELSE LET r == IF st.version = 1
                           THEN copy_raw_chunks_1(din, fidx, dout, var.offset)
                           ELSE copy_raw_chunks(din, fidx, dout, var.offset)
                  IN  CopyVars(
                         [st EXCEPT !.out[var.path] = r.ds,
                                    !.raw = @ \cup r.raw,
                                    !.hyperslabs = @ \cup r.hyperslabs,
                                    !.writer_failed = @ \/ r.writer_failed,
                                    !.rv[v].offset = @ + din.extent],
                         file, fidx, v + 1)

(* 5.5: one iteration of the loop over the input files *)
CcCopyFile ==
    /\ cc.pc = "copy"
    /\ cc.f < n_inputs
    /\ LET st == CopyVars(cc, cc.files[cc.f + 1], cc.f + 1, 1)
       IN  cc' = IF st.pc = "died" THEN st ELSE [st EXCEPT !.f = cc.f + 1]
    /\ UNCHANGED <<rnd, kb, br, sx, bc, bp, od, dl>>

(* 5.6 to 5.8: references, history, flush and close; exit status 0 *)
CcFinish ==
    /\ cc.pc = "copy"
    /\ cc.f = n_inputs
    /\ cc' = [cc EXCEPT !.pc = "done"]
    /\ UNCHANGED <<rnd, kb, br, sx, bc, bp, od, dl>>

CcNext == CcParse \/ CcDetect \/ CcAccumulate \/ CcCreate \/ CcExtend \/ CcCopyFile \/ CcFinish

SpecConcat == CcInit /\ [][CcNext]_vars

RECURSIVE SumExtents(_, _)
SumExtents(path, f) ==
    IF f = 0 THEN 0 ELSE cc.files[f][path].extent + SumExtents(path, f - 1)

(* C10: when concat has finished, the extent of every record variable in   *)
(* OUT equals the sum of its extents over all the inputs.                  *)
C10_ExtentIsSum ==
    cc.pc = "done" =>
        \A v \in DOMAIN cc.rv :
            /\ cc.out[cc.rv[v].path].present
            /\ cc.out[cc.rv[v].path].extent = SumExtents(cc.rv[v].path, n_inputs)

(* a finished concat of two inputs with two record variables whose sums    *)
(* differ from each other and from the extents in the first input          *)
C10_Witness ==
    /\ cc.pc = "done"
    /\ n_inputs = 2
    /\ Len(cc.rv) = 2
    /\ cc.out["a"].extent # cc.out["b"].extent
    /\ \A path \in {"a", "b"} :
          /\ cc.files[2][path].extent > 0
          /\ cc.out[path].extent = cc.files[1][path].extent + cc.files[2][path].extent

(* C24: the running offset of every record variable is 0 until the chunk   *)
(* copy starts, is the sum of the extents of the inputs copied so far (in  *)
(* argv order) after each input, is never above the final length, and is   *)
(* the final length after the last input.                                  *)
C24_RunningOffset ==
    \A v \in DOMAIN cc.rv :
        /\ cc.pc \notin {"copy", "done", "died"} => cc.rv[v].offset = 0
        /\ cc.pc \in {"copy", "done"} =>
              /\ cc.rv[v].offset = SumExtents(cc.rv[v].path, cc.f)
              /\ cc.rv[v].offset <= cc.rv[v].total_len
              /\ cc.f = 0 => cc.rv[v].offset = 0
              /\ cc.f = n_inputs => cc.rv[v].offset = cc.rv[v].total_len

(* C24, the step: no step of concat lowers the offset of a record variable *)
C24_OffsetNeverDecreases ==
    [][\A v \in DOMAIN cc.rv :
          v \in DOMAIN cc'.rv /\ cc'.rv[v].offset >= cc.rv[v].offset]_vars

(* a finished run over two inputs with a record variable that both inputs *)
(* extend                                                                  *)
C24_Witness ==
    /\ cc.pc = "done"
    /\ n_inputs = 2
    /\ \E v \in DOMAIN cc.rv :
          /\ cc.files[1][cc.rv[v].path].extent > 0
          /\ cc.files[2][cc.rv[v].path].extent > 0
          /\ cc.rv[v].offset =
                cc.files[1][cc.rv[v].path].extent + cc.files[2][cc.rv[v].path].extent
          /\ cc.rv[v].offset = cc.rv[v].total_len

(* every later input has the chunk shape and the filter stack of the first *)
SameSchema ==
    \A f \in 1 .. Len(cc.files), v \in DOMAIN cc.rv :
        LET d == cc.files[f][cc.rv[v].path]
        IN  d.present =>
               /\ d.chunk = cc.files[1][cc.rv[v].path].chunk
               /\ d.filters = cc.files[1][cc.rv[v].path].filters

(* C11: when concat of inputs that share one schema has finished, for      *)
(* every record variable, every input f and every record index r below the *)
(* extent of the variable in f, OUT holds at index offset_f + r the value  *)
(* the input holds at r, where offset_f is the sum of the extents in the   *)
(* inputs before f.                                                        *)
C11_DataAtOffset ==
    (cc.pc = "done" /\ SameSchema) =>
        \A v \in DOMAIN cc.rv, f \in 1 .. Len(cc.files) :
            LET path == cc.rv[v].path
            IN  \A r \in 0 .. cc.files[f][path].extent - 1 :
                    cc.out[path].data[SumExtents(path, f - 1) + r] = <<f, r>>

(* the statement of C11 for inputs whose extents before the last input are *)
(* multiples of the chunk extent                                           *)
C11_DataAtOffsetWhenAligned ==
    (\A v \in DOMAIN cc.rv, f \in 1 .. Len(cc.files) - 1 :
        cc.files[f][cc.rv[v].path].present =>
            cc.files[f][cc.rv[v].path].extent % cc.files[1][cc.rv[v].path].chunk = 0)
    => C11_DataAtOffset

(* C12: every raw chunk write concat issues has a coordinate that is a     *)
(* multiple of the chunk extent, and when concat has finished every input  *)
(* that starts at an offset that is no such multiple has been written as a *)
(* hyperslab.                                                              *)
C12_RawWritesAligned ==
    /\ \A w \in cc.raw : w.coord % w.chunk = 0
    /\ (cc.pc = "done" /\ SameSchema) =>
          \A v \in DOMAIN cc.rv, f \in 1 .. Len(cc.files) :
              LET path == cc.rv[v].path
              IN  (/\ cc.files[f][path].extent > 0
                   /\ SumExtents(path, f - 1) % cc.out[path].chunk # 0)
                  => \E h \in cc.hyperslabs : h.path = path /\ h.fidx = f

(* the datasets of the first input that have no unlimited dimension *)
FixedPaths ==
    {path \in DOMAIN cc.out :
        cc.files[1][path].present /\ ~cc.files[1][path].unlimited}

(* C13: when concat has finished, every dataset of the first input that    *)
(* has no unlimited dimension is present in OUT with the extent and the    *)
(* data it has in the first input.                                         *)
C13_FixedDatasetsCloned ==
    cc.pc = "done" =>
        \A path \in FixedPaths :
            /\ cc.out[path].present
            /\ cc.out[path].extent = cc.files[1][path].extent
            /\ cc.out[path].data =
                  [p \in 0 .. cc.files[1][path].extent - 1 |-> <<1, p>>]

(* the statement of C13 for the datasets whose H5Ocopy succeeded *)
C13_ClonedWhenCopied ==
    cc.pc = "done" =>
        \A path \in FixedPaths :
            cc.out[path].present =>
                /\ cc.out[path].extent = cc.files[1][path].extent
                /\ cc.out[path].data =
                      [p \in 0 .. cc.files[1][path].extent - 1 |-> <<1, p>>]

(* the part of C13 about the steps after the clone: no extension and no    *)
(* chunk copy changes a dataset that has no unlimited dimension            *)
C13_FixedDatasetsUntouched ==
    [][cc.pc \in {"extend", "copy"} =>
          \A path \in FixedPaths : cc'.out[path] = cc.out[path]]_vars

(* a finished run whose first input has a dataset without unlimited        *)
(* dimension that H5Ocopy copied *)
C13_FixedSeen ==
    /\ cc.pc = "done"
    /\ Len(cc.files) = 2
    /\ \E path \in FixedPaths : cc.out[path].present

(* C14: concat finishes only if every record dataset of the first input is *)
(* present in every later input with the chunk shape and the filter stack  *)
(* it has in the first input.                                              *)
C14_SchemaMismatchFatal ==
    cc.pc = "done" =>
        /\ \A f \in 1 .. Len(cc.files) : ~DatasetMissing(cc.rv, cc.files[f])
        /\ SameSchema

(* the part of C14 about a record dataset missing in a later input *)
C14_MissingDatasetFatal ==
    cc.pc = "done" =>
        \A f \in 1 .. Len(cc.files) : ~DatasetMissing(cc.rv, cc.files[f])

(* the statement of C15 for concat: a run returns 0 only if no call that   *)
(* copies an object or writes a chunk has failed                           *)
C15_ConcatWriterErrorFatal ==
    cc.pc = "done" => ~cc.writer_failed

(* C16: concat given fewer than two input files ends in usage() and never  *)
(* creates the output file.                                                *)
C16_TwoInputsNeeded ==
    Len(cc.files) < 2 => (~cc.created /\ cc.pc # "done")

(***************************************************************************)
(* bitinformation: the counters of the adjacent pairs of a buffer           *)
(* (bitrounding_bitinfo.c).  BC.C is a function from the index 0..31 to    *)
(* the 2 x 2 cells.                                                        *)
(***************************************************************************)
(* BitpairCounters BC = {0} *)
ZeroCounters == [b \in 0 .. NBITS - 1 |-> [x \in 0 .. 1 |-> [y \in 0 .. 1 |-> 0]]]

(* mutant: the counters are indexed from the LSB *)
bitpair_count_kernel_lsbfirst(a, b, BC) ==
    [idx \in 0 .. NBITS - 1 |->
        LET mask == Shl32(U32(0, 1), idx)
            j == Shr32(And32(a, mask), idx).lo
            k == Shr32(And32(b, mask), idx).lo
        IN  [BC[idx] EXCEPT ![j][k] = @ + 1]]

(* the loop over i = 0 .. NBITS - 1 with mask = 1 << i; the entry with     *)
(* index idx is the one the iteration i = NBITS - idx - 1 increments       *)
bitpair_count_kernel(a, b, BC) ==
    [idx \in 0 .. NBITS - 1 |->
        LET i == NBITS - idx - 1
            mask == Shl32(U32(0, 1), i)
            j == Shr32(And32(a, mask), i).lo
            k == Shr32(And32(b, mask), i).lo
        IN  [BC[idx] EXCEPT ![j][k] = @ + 1]]

(* the words of the buffers: 0, 0xFFFFFFFF, 0x80000000, 1, 0x3F9E0652 *)
BcWords == { Zero32, U32(65535, 65535), U32(32768, 0), U32(0, 1), U32(16286, 1618) }

(* the buffers bitinformation is called with: analyze_and_get_nsb returns  *)
(* before the call when len < 2                                            *)
BcBuffers == UNION { [1 .. n -> BcWords] : n \in 2 .. MaxLen + 1 }

BcInit ==
    /\ bc \in { [ pc |-> "count", A |-> buf, i |-> 0, C |-> ZeroCounters ] :
                  buf \in BcBuffers }
    /\ rnd = [pc |-> "idle"]
    /\ kb = [pc |-> "idle"]
    /\ br = [pc |-> "idle"]
    /\ cc = [pc |-> "idle"]
    /\ sx = [pc |-> "idle"]
    /\ bp = [pc |-> "idle"]
    /\ od = [pc |-> "idle"]
    /\ dl = [pc |-> "idle"]

(* bitinformation(A, n) is mutual_information(A, A + 1, n - 1): one        *)
(* iteration of the loop of bitpair_count over i < n - 1                   *)
BcCount ==
    /\ bc.pc = "count"
    /\ bc.i < Len(bc.A) - 1
    /\ bc' = [bc EXCEPT !.i = bc.i + 1,
                        !.C = bitpair_count_kernel(bc.A[bc.i + 1], bc.A[bc.i + 2], bc.C)]
    /\ UNCHANGED <<rnd, kb, br, cc, sx, bp, od, dl>>

(* return BC *)
BcReturn ==
    /\ bc.pc = "count"
    /\ bc.i = Len(bc.A) - 1
    /\ bc' = [bc EXCEPT !.pc = "counted"]
    /\ UNCHANGED <<rnd, kb, br, cc, sx, bp, od, dl>>

BcNext == BcCount \/ BcReturn

SpecInfo == BcInit /\ [][BcNext]_vars

(* bit pos of a word, pos 0 the LSB *)
BitAt(w, pos) ==
    IF pos < 16 THEN (w.lo \div Pow2(pos)) % 2 ELSE (w.hi \div Pow2(pos - 16)) % 2

(* C27: when the pairs of a buffer of n words are counted, for every index *)
(* b the four cells sum to n - 1, and cell (i, j) is the number of k for   *)
(* which bit 31 - b of word k is i and bit 31 - b of word k + 1 is j.      *)
C27_PairCounts ==
    bc.pc = "counted" =>
        \A b \in 0 .. 31 :
            /\ bc.C[b][0][0] + bc.C[b][0][1] + bc.C[b][1][0] + bc.C[b][1][1]
                  = Len(bc.A) - 1
            /\ \A i \in 0 .. 1, j \in 0 .. 1 :
                  bc.C[b][i][j] =
                      Cardinality({ k \in 1 .. Len(bc.A) - 1 :
                                      /\ BitAt(bc.A[k], 31 - b) = i
                                      /\ BitAt(bc.A[k + 1], 31 - b) = j })

(* a counted buffer of three words or more in which the sign bit goes from *)
(* 1 to 0 and the last bit from 0 to 1                                     *)
C27_Witness ==
    /\ bc.pc = "counted"
    /\ Len(bc.A) >= 3
    /\ bc.C[0][1][0] >= 1
    /\ bc.C[31][0][1] >= 1
    /\ bc.C[0] # bc.C[31]

(***************************************************************************)
(* The bit-pattern summary: analyze_data_bits and format_bit_pattern       *)
(* (src/src/bit_pattern.c) and the float-only analyze_2d_slice of the      *)
(* first version of the tool (src/unnamed/part_003).  A buffer is a        *)
(* sequence of elements, an element the sequence of its bytes in memory    *)
(* order; on the little-endian hosts the tools are built for, byte k       *)
(* (k = 0 first) holds bits 8k .. 8k + 7 of the value.                     *)
(***************************************************************************)
MAX_PATTERN_LEN == 64

DTypes == { "DTYPE_FLOAT32", "DTYPE_FLOAT64", "DTYPE_INT16", "DTYPE_UINT16",
            "DTYPE_INT32", "DTYPE_UINT32", "DTYPE_INT64", "DTYPE_UINT64" }

(* the switch of analyze_data_bits; element_size 0 is the default branch   *)
dtype_layout(dtype) ==
    CASE dtype = "DTYPE_FLOAT32" ->
            [element_size |-> 4, bit_width |-> 32, check_finite |-> TRUE]
      [] dtype = "DTYPE_FLOAT64" ->
            [element_size |-> 8, bit_width |-> 64, check_finite |-> TRUE]
      [] dtype \in {"DTYPE_INT16", "DTYPE_UINT16"} ->
            [element_size |-> 2, bit_width |-> 16, check_finite |-> FALSE]
      [] dtype \in {"DTYPE_INT32", "DTYPE_UINT32"} ->
            [element_size |-> 4, bit_width |-> 32, check_finite |-> FALSE]
      [] dtype \in {"DTYPE_INT64", "DTYPE_UINT64"} ->
            [element_size |-> 8, bit_width |-> 64, check_finite |-> FALSE]
      [] OTHER ->
            [element_size |-> 0, bit_width |-> 0, check_finite |-> FALSE]

(* isfinite of the float and of the double read at element: the exponent  *)
(* field is not all ones                                                   *)
isfinite_float(element) == (element[4] % 128) * 2 + (element[3] \div 128) # 255

isfinite_double(element) == (element[8] % 128) * 16 + (element[7] \div 16) # 2047

(* mutant: the scan without the isfinite test *)
RECURSIVE scan_elements_nofinite(_, _, _, _, _, _, _)
scan_elements_nofinite(data, i, element_size, bit_pos, check_finite, all_zero, all_one) ==
    IF i > Len(data) THEN [all_zero |-> all_zero, all_one |-> all_one]
    ELSE LET bit_set == (data[i][(bit_pos \div 8) + 1] \div Pow2(bit_pos % 8)) % 2 = 1
             az == all_zero /\ ~bit_set
             ao == all_one /\ bit_set
         IN  IF ~az /\ ~ao THEN [all_zero |-> az, all_one |-> ao]
             ELSE scan_elements_nofinite(data, i + 1, element_size, bit_pos,
                                         check_finite, az, ao)

(* the inner loop of analyze_bits_generic from element i (1-based) on:     *)
(* continue on a non-finite value, break as soon as both flags are down    *)
RECURSIVE scan_elements(_, _, _, _, _, _, _)
scan_elements(data, i, element_size, bit_pos, check_finite, all_zero, all_one) ==
    IF i > Len(data) THEN [all_zero |-> all_zero, all_one |-> all_one]
    ELSE LET element == data[i]
             skip == /\ check_finite
                     /\ \/ element_size = 4 /\ ~isfinite_float(element)
                        \/ element_size = 8 /\ ~isfinite_double(element)
             byte_index == bit_pos \div 8
             bit_in_byte == bit_pos % 8
             bit_set == IF byte_index < element_size
                        THEN And16(element[byte_index + 1], Pow2(bit_in_byte), 8) # 0
                        ELSE FALSE
             az == all_zero /\ ~bit_set
             ao == all_one /\ bit_set
         IN  IF skip
             THEN scan_elements(data, i + 1, element_size, bit_pos,
                                check_finite, all_zero, all_one)
             ELSE IF ~az /\ ~ao THEN [all_zero |-> az, all_one |-> ao]
             ELSE scan_elements(data, i + 1, element_size, bit_pos,
                                check_finite, az, ao)

(* the cast of data to uint32_t words: the word of a four-byte element *)
WordOf(element) == U32(element[4] * 256 + element[3], element[2] * 256 + element[1])

(* the inner loop of analyze_float_bits, mask = 1U << bit_pos *)
RECURSIVE scan_words(_, _, _, _, _)
scan_words(data, i, bit_pos, all_zero, all_one) ==
    IF i > Len(data) THEN [all_zero |-> all_zero, all_one |-> all_one]
    ELSE LET mask == Shl32(U32(0, 1), bit_pos)
             bit_set == And32(WordOf(data[i]), mask) # Zero32
             az == all_zero /\ ~bit_set
             ao == all_one /\ bit_set
         IN  IF ExpOf(WordOf(data[i])) = 255
             THEN scan_words(data, i + 1, bit_pos, all_zero, all_one)
             ELSE IF ~az /\ ~ao THEN [all_zero |-> az, all_one |-> ao]
             ELSE scan_words(data, i + 1, bit_pos, az, ao)

(* 0 = all zeros, 1 = all ones, 2 = mixed *)
pattern_code(flags) == IF flags.all_zero THEN 0 ELSE IF flags.all_one THEN 1 ELSE 2

(* the characters one iteration of the loop of format_bit_pattern stores:   *)
(* the bit, a field separator for the float types, and a space after every *)
(* eighth bit unless the character just stored is the separator            *)
format_step(pattern, bit_width, dtype, i) ==
    LET bit_char == CASE pattern[i + 1] = 0 -> "0"
                      [] pattern[i + 1] = 1 -> "1"
                      [] OTHER -> "-"
        o1 == << bit_char >>
        o2 == IF dtype = "DTYPE_FLOAT32" /\ bit_width = 32
              THEN (IF i = 31 \/ i = 23 THEN Append(o1, "|") ELSE o1)
              ELSE IF dtype = "DTYPE_FLOAT64" /\ bit_width = 64
              THEN (IF i = 63 \/ i = 52 THEN Append(o1, "|") ELSE o1)
              ELSE o1
    IN  IF i > 0 /\ (bit_width - i) % 8 = 0 /\ o2[Len(o2)] # "|"
        THEN Append(o2, " ")
        ELSE o2

(* the loop of format_bit_pattern from bit i down to 0 *)
RECURSIVE format_bits(_, _, _, _)
format_bits(pattern, bit_width, dtype, i) ==
    IF i < 0 THEN << >>
    ELSE format_step(pattern, bit_width, dtype, i)
             \o format_bits(pattern, bit_width, dtype, i - 1)

(* the characters format_bit_pattern stores at output, the NUL excluded *)
format_bit_pattern(pattern, bit_width, dtype) ==
    << "(", "M", "S", "B", ")", " " >>
        \o format_bits(pattern, bit_width, dtype, bit_width - 1)
        \o << " ", "(", "L", "S", "B", ")" >>

(* format_bit_pattern of the first version: no dtype, no field separators *)
RECURSIVE format_bits_float(_, _, _)
format_bits_float(pattern, bit_width, i) ==
    IF i < 0 THEN << >>
    ELSE LET bit_char == CASE pattern[i + 1] = 0 -> "0"
                           [] pattern[i + 1] = 1 -> "1"
                           [] OTHER -> "-"
         IN  (IF i > 0 /\ (bit_width - i) % 8 = 0
              THEN << bit_char, " " >>
              ELSE << bit_char >>)
                 \o format_bits_float(pattern, bit_width, i - 1)

format_bit_pattern_float(pattern, bit_width) ==
    << "(", "M", "S", "B", ")", " " >>
        \o format_bits_float(pattern, bit_width, bit_width - 1)
        \o << " ", "(", "L", "S", "B", ")" >>

(* the number of entries of bit_pattern with the code c *)
count_code(bit_pattern, c) ==
    Cardinality({ i \in 1 .. Len(bit_pattern) : bit_pattern[i] = c })

(* elements of 2, 4 and 8 bytes: 0, all ones (a NaN as a float), +Inf,     *)
(* -Inf, a finite value (0x8001, 0x3F9E0652, 0x3FF0000000000001), and     *)
(* 1.0f (0x3F800000) among the four-byte elements                          *)
BpElements(element_size) ==
    CASE element_size = 2 -> { <<0, 0>>, <<255, 255>>, <<1, 128>> }
      [] element_size = 4 -> { <<0, 0, 0, 0>>, <<255, 255, 255, 255>>,
                               <<0, 0, 128, 127>>, <<0, 0, 128, 255>>,
                               <<82, 6, 158, 63>>, <<0, 0, 128, 63>> }
      [] element_size = 8 -> { <<0, 0, 0, 0, 0, 0, 0, 0>>,
                               <<255, 255, 255, 255, 255, 255, 255, 255>>,
                               <<0, 0, 0, 0, 0, 0, 240, 127>>,
                               <<0, 0, 0, 0, 0, 0, 240, 255>>,
                               <<1, 0, 0, 0, 0, 0, 240, 63>> }

BpBuffers(element_size) ==
    UNION { [1 .. n -> BpElements(element_size)] : n \in 0 .. MaxLen + 1 }

(* the calls: analyze_data_bits(data, len, dtype, &result) for each dtype  *)
(* and analyze_2d_slice(data, len, &result) on floats                      *)
BpCalls ==
    { [fn |-> "analyze_data_bits", dtype |-> d, data |-> buf] :
          d \in DTypes, buf \in BpBuffers(2) \cup BpBuffers(4) \cup BpBuffers(8) }
    \cup { [fn |-> "analyze_2d_slice", dtype |-> "DTYPE_FLOAT32", data |-> buf] :
          buf \in BpBuffers(4) }

BpInit ==
    /\ bp \in { [ pc |-> "call", fn |-> c.fn, dtype |-> c.dtype, data |-> c.data,
                  bit_width |-> 0, bit_pos |-> 0, bit_pattern |-> <<>>,
                  written |-> 0, result |-> [pattern |-> <<>>] ] :
                c \in { k \in BpCalls :
                          \A i \in 1 .. Len(k.data) :
                              Len(k.data[i]) = dtype_layout(k.dtype).element_size } }
    /\ rnd = [pc |-> "idle"]
    /\ kb = [pc |-> "idle"]
    /\ br = [pc |-> "idle"]
    /\ cc = [pc |-> "idle"]
    /\ sx = [pc |-> "idle"]
    /\ bc = [pc |-> "idle"]
    /\ od = [pc |-> "idle"]
    /\ dl = [pc |-> "idle"]

(* the entry of the analysis: the pattern array is zeroed; with len = 0    *)
(* the function returns at once and no bit position is scanned             *)
BpEnter ==
    /\ bp.pc = "call"
    /\ LET bit_width == IF bp.fn = "analyze_2d_slice" THEN 32
                        ELSE dtype_layout(bp.dtype).bit_width
       IN  bp' = [bp EXCEPT !.pc = "scan",
                            !.bit_width = bit_width,
                            !.bit_pattern = [i \in 1 .. bit_width |-> 0],
                            !.bit_pos = IF Len(bp.data) = 0 THEN bit_width ELSE 0]
    /\ UNCHANGED <<rnd, kb, br, cc, sx, bc, od, dl>>

(* one iteration of the loop over bit_pos *)
BpBit ==
    /\ bp.pc = "scan"
    /\ bp.bit_pos < bp.bit_width
    /\ LET lay == dtype_layout(bp.dtype)
           flags == IF bp.fn = "analyze_2d_slice"
                    THEN scan_words(bp.data, 1, bp.bit_pos, TRUE, TRUE)
                    ELSE scan_elements(bp.data, 1, lay.element_size, bp.bit_pos,
                                       lay.check_finite, TRUE, TRUE)
       IN  bp' = [bp EXCEPT !.bit_pos = bp.bit_pos + 1,
                            !.bit_pattern[bp.bit_pos + 1] = pattern_code(flags)]
    /\ UNCHANGED <<rnd, kb, br, cc, sx, bc, od, dl>>

(* the counts and the pattern string.  written is the number of bytes      *)
(* stored from result->pattern on, the NUL included; pattern has           *)
(* MAX_PATTERN_LEN bytes and the four int fields follow it, so a longer    *)
(* string runs over them and past the struct: the fields then hold         *)
(* whatever the build leaves there.                                        *)
BpFormat ==
    /\ bp.pc = "scan"
    /\ bp.bit_pos = bp.bit_width
    /\ LET output == IF bp.fn = "analyze_2d_slice"
                     THEN format_bit_pattern_float(bp.bit_pattern, 32)
                     ELSE format_bit_pattern(bp.bit_pattern, bp.bit_width, bp.dtype)
           written == Len(output) + 1
           fields == [ pattern |-> output,
                       bit_width |-> bp.bit_width,
                       all_zeros_count |-> count_code(bp.bit_pattern, 0),
                       all_ones_count |-> count_code(bp.bit_pattern, 1),
                       mixed_count |-> count_code(bp.bit_pattern, 2) ]
       IN  \E intact \in BOOLEAN :
              /\ written <= MAX_PATTERN_LEN => intact
              /\ bp' = [bp EXCEPT !.pc = "done",
                                  !.written = written,
                                  !.result =
                                      IF intact THEN fields
                                      ELSE [ pattern |-> output,
                                             bit_width |-> "overwritten",
                                             all_zeros_count |-> "overwritten",
                                             all_ones_count |-> "overwritten",
                                             mixed_count |-> "overwritten" ]]
    /\ UNCHANGED <<rnd, kb, br, cc, sx, bc, od, dl>>

BpNext == BpEnter \/ BpBit \/ BpFormat

SpecPattern == BpInit /\ [][BpNext]_vars

(* bit b of the value of an element, and the values that are finite:      *)
(* every integer, and a float whose exponent field is not all ones         *)
ValueBit(element, b) == (element[(b \div 8) + 1] \div Pow2(b % 8)) % 2

FloatDType(dtype) == dtype \in {"DTYPE_FLOAT32", "DTYPE_FLOAT64"}

ExponentAllOnes(dtype, element) ==
    IF dtype = "DTYPE_FLOAT32"
    THEN \A b \in 23 .. 30 : ValueBit(element, b) = 1
    ELSE \A b \in 52 .. 62 : ValueBit(element, b) = 1

FiniteValues(dtype, data) ==
    { i \in 1 .. Len(data) : FloatDType(dtype) => ~ExponentAllOnes(dtype, data[i]) }

(* C21: for every bit position b that has been scanned, the code is        *)
(* ALLZERO (0) iff every finite value has bit b = 0, ALLONE (1) iff there  *)
(* is a finite value and every finite value has bit b = 1, and MIXED (2)   *)
(* otherwise; the non-finite values do not enter.                          *)
C21_BitSummary ==
    bp.pc \in {"scan", "done"} =>
        \A b \in 0 .. bp.bit_pos - 1 :
            LET fin == FiniteValues(bp.dtype, bp.data)
                zeros == \A i \in fin : ValueBit(bp.data[i], b) = 0
                ones == fin # {} /\ \A i \in fin : ValueBit(bp.data[i], b) = 1
            IN  /\ bp.bit_pattern[b + 1] = 0 <=> zeros
                /\ bp.bit_pattern[b + 1] = 1 <=> ones
                /\ bp.bit_pattern[b + 1] = 2 <=> (~zeros /\ ~ones)

(* a finished float analysis of three values, two finite ones and then a   *)
(* non-finite one (the scan of a mixed bit stops before it), with an       *)
(* all-ones bit, a mixed bit and an all-zeros bit                          *)
C21_Witness ==
    /\ bp.pc = "done"
    /\ bp.dtype = "DTYPE_FLOAT32"
    /\ Len(bp.data) = 3
    /\ FiniteValues(bp.dtype, bp.data) = {1, 2}
    /\ \E b1 \in 1 .. 32, b2 \in 1 .. 32, b3 \in 1 .. 32 :
          /\ bp.bit_pattern[b1] = 1
          /\ bp.bit_pattern[b2] = 2
          /\ bp.bit_pattern[b3] = 0

(* C21: a buffer without a finite value gives ALLZERO at every position *)
C21_NoFiniteAllZero ==
    (bp.pc = "done" /\ FiniteValues(bp.dtype, bp.data) = {}) =>
        \A b \in 1 .. bp.bit_width : bp.bit_pattern[b] = 0

(* C29: format_bit_pattern stores at most MAX_PATTERN_LEN bytes, the NUL   *)
(* included, in the pattern field, for every element type.                 *)
C29_PatternFits ==
    bp.pc = "done" => bp.written <= MAX_PATTERN_LEN

(* C29: the 16- and 32-bit types fit *)
C29_NarrowTypesFit ==
    (bp.pc = "done" /\ bp.bit_width <= 32) =>
        /\ bp.written <= MAX_PATTERN_LEN
        /\ bp.result.bit_width = bp.bit_width

(***************************************************************************)
(* The slab loop of the bit-pattern analysis of a variable of rank >= 3:   *)
(* the HDF5 program (src/src/hdf_bit_analysis.c, main and                  *)
(* read_hdf5_2d_slice) and the NetCDF program                              *)
(* (src/src/netcdf_bit_analysis.c, main, with read_2d_slice of             *)
(* src/unnamed/part_002).  dims is the shape of the variable; reads is the *)
(* list of the slab reads made, each with the leading part of the start    *)
(* vector handed to the library and the outcome of the read.               *)
(***************************************************************************)
OdShapes == UNION { [1 .. r -> 1 .. MaxExtent] : r \in 3 .. 4 }

Leading(dims) == SubSeq(dims, 1, Len(dims) - 2)

OdInit ==
    /\ od \in { [ pc |-> "variable", program |-> p, dims |-> d, total_slices |-> 0,
                  slice_num |-> 0, slice_indices |-> << >>, reads |-> << >>,
                  summarised |-> << >> ] :
                p \in {"hdf", "netcdf"}, d \in OdShapes }
    /\ rnd = [pc |-> "idle"]
    /\ kb = [pc |-> "idle"]
    /\ br = [pc |-> "idle"]
    /\ cc = [pc |-> "idle"]
    /\ sx = [pc |-> "idle"]
    /\ bc = [pc |-> "idle"]
    /\ bp = [pc |-> "idle"]
    /\ dl = [pc |-> "idle"]

(* hdf: a dataset of one element is skipped; total_slices is the product   *)
(* of the leading extents and slice_indices starts at zero.                *)
(* netcdf: num_slices = var.dims[0].                                       *)
OdEnter ==
    /\ od.pc = "variable"
    /\ IF od.program = "hdf"
       THEN IF Product(od.dims) <= 1
            THEN od' = [od EXCEPT !.pc = "skipped"]
            ELSE od' = [od EXCEPT !.pc = "loop",
                                  !.total_slices = Product(Leading(od.dims)),
                                  !.slice_indices = [i \in 1 .. Len(od.dims) - 2 |-> 0]]
       ELSE od' = [od EXCEPT !.pc = "loop", !.total_slices = od.dims[1]]
    /\ UNCHANGED <<rnd, kb, br, cc, sx, bc, bp, dl>>

(* the carry loop: for (dim = ndims - 3; dim >= 0 && carry; dim--), dim    *)
(* counted from 1 here                                                     *)
RECURSIVE increment_indices(_, _, _)
increment_indices(slice_indices, dims, dim) ==
    IF dim < 1 THEN slice_indices
    ELSE IF slice_indices[dim] + 1 < dims[dim]
    THEN [slice_indices EXCEPT ![dim] = @ + 1]
    ELSE increment_indices([slice_indices EXCEPT ![dim] = 0], dims, dim - 1)

(* read_2d_slice: start[0] = slice_index, start[i] = 0 for the other       *)
(* leading dimensions                                                      *)
read_2d_slice_start(dims, slice_index) ==
    [i \in 1 .. Len(dims) - 2 |-> IF i = 1 THEN slice_index ELSE 0]

(* one iteration of the slab loop: the read, the summary when the read     *)
(* succeeded, and the step to the next slab (taken on both paths)          *)
OdSlice ==
    /\ od.pc = "loop"
    /\ od.slice_num < od.total_slices
    /\ \E read_ok \in BOOLEAN :
          LET start == IF od.program = "hdf" THEN od.slice_indices
                       ELSE read_2d_slice_start(od.dims, od.slice_num)
          IN  od' = [od EXCEPT
                        !.reads = Append(@, [start |-> start, read_ok |-> read_ok]),
                        !.summarised = IF read_ok THEN Append(@, start) ELSE @,
                        !.slice_num = @ + 1,
                        !.slice_indices =
                            IF od.program = "hdf"
                            THEN increment_indices(@, od.dims, Len(od.dims) - 2)
                            ELSE @]
    /\ UNCHANGED <<rnd, kb, br, cc, sx, bc, bp, dl>>

OdDone ==
    /\ od.pc = "loop"
    /\ od.slice_num = od.total_slices
    /\ od' = [od EXCEPT !.pc = "done"]
    /\ UNCHANGED <<rnd, kb, br, cc, sx, bc, bp, dl>>

OdNext == OdEnter \/ OdSlice \/ OdDone

SpecSlabs == OdInit /\ [][OdNext]_vars

(* the index tuples of the extents lead in row-major order, from 0 *)
RECURSIVE RowMajor(_)
RowMajor(lead) ==
    IF lead = << >> THEN << << >> >>
    ELSE LET rest == RowMajor(Tail(lead))
             n == Len(rest)
         IN  [k \in 1 .. Head(lead) * n |->
                 << (k - 1) \div n >> \o rest[((k - 1) % n) + 1]]

ReadStarts == [k \in 1 .. Len(od.reads) |-> od.reads[k].start]

OkRead(r) == r.read_ok

SummarisedInOrder ==
    LET ok == SelectSeq(od.reads, OkRead)
    IN  od.summarised = [k \in 1 .. Len(ok) |-> ok[k].start]

(* C22: when the slab loop of a variable of rank >= 3 has ended, the slabs *)
(* read are those of all index tuples of the leading dimensions, each      *)
(* once, in row-major order, whether the reads failed or not, and the      *)
(* slabs summarised are those whose read succeeded, in the same order.     *)
C22_RowMajorSlabs ==
    od.pc = "done" =>
        /\ ReadStarts = RowMajor(Leading(od.dims))
        /\ Len(od.reads) = Product(Leading(od.dims))
        /\ SummarisedInOrder

(* C22: the HDF5 program does so for every rank, the NetCDF program for    *)
(* rank 3                                                                  *)
C22_OdometerRowMajor ==
    (od.pc = "done" /\ (od.program = "hdf" \/ Len(od.dims) = 3)) =>
        /\ ReadStarts = RowMajor(Leading(od.dims))
        /\ Len(od.reads) = Product(Leading(od.dims))
        /\ SummarisedInOrder

(* a finished HDF5 loop over two leading dimensions of extent two with a   *)
(* failed read before the carry                                            *)
C22_OdometerWitness ==
    /\ od.pc = "done"
    /\ od.program = "hdf"
    /\ Leading(od.dims) = <<2, 2>>
    /\ ~od.reads[2].read_ok
    /\ od.reads[3] = [start |-> <<1, 0>>, read_ok |-> TRUE]
    /\ Len(od.summarised) = 3

(***************************************************************************)
(* fix_dimension_list_references (src/src/hdf_concat.c): the callback run  *)
(* on one dataset of the output file that carries a DIMENSION_LIST         *)
(* attribute.  dims is the list of the names of the dataset's dimensions,  *)
(* scales the set of paths of the datasets at the root of the output file, *)
(* new_refs the references built so far and attr the attribute's entries.  *)
(***************************************************************************)
DimNames == { "time", "level", "latitude", "longitude", "x", "y" }

(* char *dim_names[] = {"time", "level", "latitude", "longitude"} *)
dim_names == << "time", "level", "latitude", "longitude" >>

PathOf(name) == << "/", name >>

NullRef == << >>

(* the dimension lists of the datasets: up to three distinct names, in any *)
(* order, and one list of five                                             *)
DlDimLists ==
    { s \in UNION { [1 .. k -> DimNames] : k \in 1 .. 3 } :
          \A i \in 1 .. Len(s), j \in 1 .. Len(s) : i # j => s[i] # s[j] }
    \cup { << "time", "level", "latitude", "longitude", "x" >> }

DlInit ==
    /\ dl \in { [ pc |-> "visit", dims |-> d,
                  scales |-> IF others THEN { PathOf(n) : n \in DimNames }
                             ELSE { PathOf(d[k]) : k \in 1 .. Len(d) },
                  i |-> 0, new_refs |-> << >>,
                  attr |-> [k \in 1 .. Len(d) |-> "stale"],
                  written |-> FALSE ] :
                d \in DlDimLists, others \in BOOLEAN }
    /\ rnd = [pc |-> "idle"]
    /\ kb = [pc |-> "idle"]
    /\ br = [pc |-> "idle"]
    /\ cc = [pc |-> "idle"]
    /\ sx = [pc |-> "idle"]
    /\ bc = [pc |-> "idle"]
    /\ bp = [pc |-> "idle"]
    /\ od = [pc |-> "idle"]

(* H5Rcreate(&new_refs[i], file, dim_path, H5R_OBJECT, -1): a reference to *)
(* the object at dim_path, or a failure and the null reference             *)
H5Rcreate(scales, dim_path) == IF dim_path \in scales THEN dim_path ELSE NullRef

(* one iteration of the loop over i < dims[0].  dim_names has four         *)
(* entries: from the fifth on the read is outside the array, and the       *)
(* iteration ends the process or leaves a null reference or a reference to *)
(* any object of the file.                                                 *)
DlEntry ==
    /\ dl.pc = "visit"
    /\ dl.i < Len(dl.dims)
    /\ IF dl.i < Len(dim_names)
       THEN dl' = [dl EXCEPT !.i = @ + 1,
                             !.new_refs = Append(@, H5Rcreate(dl.scales,
                                                    PathOf(dim_names[dl.i + 1])))]
       ELSE \/ dl' = [dl EXCEPT !.pc = "crashed"]
            \/ \E ref \in dl.scales \cup {NullRef} :
                  dl' = [dl EXCEPT !.i = @ + 1, !.new_refs = Append(@, ref)]
    /\ UNCHANGED <<rnd, kb, br, cc, sx, bc, bp, od>>

(* H5Adelete, H5Acreate2 and H5Awrite of the new references; a failed      *)
(* write is warned about only and leaves the new attribute unwritten       *)
DlWrite ==
    /\ dl.pc = "visit"
    /\ dl.i = Len(dl.dims)
    /\ \E write_ok \in BOOLEAN :
          dl' = [dl EXCEPT !.pc = "fixed",
                           !.written = write_ok,
                           !.attr = IF write_ok THEN dl.new_refs
                                    ELSE [k \in 1 .. Len(dl.dims) |-> NullRef]]
    /\ UNCHANGED <<rnd, kb, br, cc, sx, bc, bp, od>>

DlNext == DlEntry \/ DlWrite

SpecDimList == DlInit /\ [][DlNext]_vars

(* C26: after the fix, entry i of the DIMENSION_LIST of a dataset          *)
(* references the dimension-scale dataset of the dataset's own i-th        *)
(* dimension, by its path, whatever the names and the rank.                *)
C26_OwnDimensions ==
    (dl.pc = "fixed" /\ dl.written) =>
        \A k \in 1 .. Len(dl.dims) : dl.attr[k] = PathOf(dl.dims[k])

(* C26: it does when the dimensions are time, level, latitude, longitude   *)
(* or a prefix of that list                                                *)
C26_StandardDimensions ==
    (/\ dl.pc = "fixed"
     /\ dl.written
     /\ Len(dl.dims) <= 4
     /\ dl.dims = SubSeq(dim_names, 1, Len(dl.dims))) =>
        \A k \in 1 .. Len(dl.dims) : dl.attr[k] = PathOf(dl.dims[k])

C26_StandardWitness ==
    /\ dl.pc = "fixed"
    /\ dl.written
    /\ dl.dims = << "time", "level", "latitude" >>
    /\ dl.attr = << PathOf("time"), PathOf("level"), PathOf("latitude") >>
====
